---------------------------- MODULE Spec2Model ----------------------------
(***************************************************************************)
(* Model of the expense-ledger chat bot (src/main.go, second program text, *)
(* lines 229-1132): the message router handleUpdate with its edit-session  *)
(* table and the ledger sheet, and the reminder scheduler.                 *)
(*                                                                         *)
(* Text is modelled as a sequence of one-character strings, so that the    *)
(* string functions the code uses (Split, TrimSpace, HasPrefix, Atoi, ...) *)
(* are computed as the code computes them.  A sheet cell is text: the      *)
(* backend returns every cell in its formatted (string) rendering.         *)
(*                                                                         *)
(* Two specifications share the variables:                                 *)
(*   Spec      - the router: inbound updates handled one at a time         *)
(*               (polling mode, runPolling), no reminder preferences.      *)
(*   SpecSched - the scheduler: startReminderScheduler, the ticker, the    *)
(*               tick loop, the per-chat dispatch goroutines and the       *)
(*               signal goroutine, with no inbound update.                 *)
(***************************************************************************)
EXTENDS Integers, Sequences, FiniteSets, TLC

-----------------------------------------------------------------------------
(* Bounds of the model *)

\* most rows the ledger sheet holds (header row included)
MaxRows == 3
\* model time units in one minute (the resolution of the clock)
UnitsPerMinute == 2
\* most time units that pass while the scheduler runs
MaxElapsed == 4

-----------------------------------------------------------------------------
(* Go string functions, on sequences of one-character strings *)

Digits == <<"0", "1", "2", "3", "4", "5", "6", "7", "8", "9">>

UpperCase == <<"A", "B", "C", "D", "E", "F", "G", "H", "I", "J", "K", "L", "M",
               "N", "O", "P", "Q", "R", "S", "T", "U", "V", "W", "X", "Y", "Z">>

LowerCase == <<"a", "b", "c", "d", "e", "f", "g", "h", "i", "j", "k", "l", "m",
               "n", "o", "p", "q", "r", "s", "t", "u", "v", "w", "x", "y", "z">>

\* the index of x in the sequence s, 0 when absent
IndexOf(s, x) ==
    IF \E i \in 1..Len(s) : s[i] = x
    THEN CHOOSE i \in 1..Len(s) : s[i] = x
    ELSE 0

\* strings.HasPrefix
HasPrefix(s, p) == Len(s) >= Len(p) /\ SubSeq(s, 1, Len(p)) = p

\* strings.TrimPrefix
TrimPrefix(s, p) == IF HasPrefix(s, p) THEN SubSeq(s, Len(p) + 1, Len(s)) ELSE s

\* whether sub occurs in s at index i
OccursAt(s, sub, i) == i + Len(sub) - 1 <= Len(s) /\ SubSeq(s, i, i + Len(sub) - 1) = sub

\* strings.Contains
Contains(s, sub) == \E i \in 1..(Len(s) + 1) : OccursAt(s, sub, i)

\* strings.ReplaceAll(s, old, ""), old not empty: the non-overlapping
\* occurrences are removed from left to right
RECURSIVE RemoveAll(_, _)
RemoveAll(s, old) ==
    IF s = <<>> THEN <<>>
    ELSE IF OccursAt(s, old, 1) THEN RemoveAll(SubSeq(s, Len(old) + 1, Len(s)), old)
    ELSE <<s[1]>> \o RemoveAll(Tail(s), old)

\* strings.ToLower (ASCII letters)
LowerOf == [c \in {UpperCase[i] : i \in 1..Len(UpperCase)} |-> LowerCase[IndexOf(UpperCase, c)]]

ToLower(s) == [i \in 1..Len(s) |-> IF s[i] \in DOMAIN LowerOf THEN LowerOf[s[i]] ELSE s[i]]

IsSpace(c) == c = " "

\* strings.TrimSpace
RECURSIVE TrimLeft(_)
TrimLeft(s) == IF s # <<>> /\ IsSpace(s[1]) THEN TrimLeft(Tail(s)) ELSE s

RECURSIVE TrimRight(_)
TrimRight(s) ==
    IF s # <<>> /\ IsSpace(s[Len(s)]) THEN TrimRight(SubSeq(s, 1, Len(s) - 1)) ELSE s

TrimSpace(s) == TrimRight(TrimLeft(s))

\* strings.Split(s, sep) for a one-character separator: the fields, in order
RECURSIVE Split(_, _)
Split(s, sep) ==
    LET i == IndexOf(s, sep)
    IN  IF i = 0 THEN <<s>>
        ELSE <<SubSeq(s, 1, i - 1)>> \o Split(SubSeq(s, i + 1, Len(s)), sep)

\* the value of each decimal digit
DigitValue == [c \in {Digits[i] : i \in 1..Len(Digits)} |-> IndexOf(Digits, c) - 1]

\* the value of a run of decimal digits
RECURSIVE DigitsValue(_)
DigitsValue(s) ==
    IF s = <<>> THEN 0
    ELSE 10 * DigitsValue(SubSeq(s, 1, Len(s) - 1)) + DigitValue[s[Len(s)]]

AllDigits(s) == s # <<>> /\ \A i \in 1..Len(s) : s[i] \in DOMAIN DigitValue

\* strconv.Atoi: an optional sign, then one or more digits; anything else
\* is an error with value 0
Atoi(s) ==
    LET signed == s # <<>> /\ s[1] \in {"+", "-"}
        body == IF signed THEN Tail(s) ELSE s
    IN  IF AllDigits(body)
        THEN [err |-> FALSE,
              val |-> IF signed /\ s[1] = "-" THEN 0 - DigitsValue(body)
                      ELSE DigitsValue(body)]
        ELSE [err |-> TRUE, val |-> 0]

\* strconv.Itoa / fmt %d
RECURSIVE NatToText(_)
NatToText(n) ==
    IF n < 10 THEN <<Digits[n + 1]>>
    ELSE NatToText(n \div 10) \o <<Digits[(n % 10) + 1]>>

Itoa(n) == IF n < 0 THEN <<"-">> \o NatToText(0 - n) ELSE NatToText(n)

-----------------------------------------------------------------------------
(* normalizeNominal *)

\* (mutant) the dots stay in the token
normalizeNominal_KeepsDots(nominal) ==
    LET n2 == ToLower(RemoveAll(nominal, <<" ">>))
        jt == <<"j", "t">>
        rb == <<"r", "b">>
        k == <<"k">>
        r == IF Contains(n2, jt) THEN [a |-> Atoi(RemoveAll(n2, jt)), m |-> 1000000]
             ELSE IF Contains(n2, rb) THEN [a |-> Atoi(RemoveAll(n2, rb)), m |-> 1000]
             ELSE IF Contains(n2, k) THEN [a |-> Atoi(RemoveAll(n2, k)), m |-> 1000]
             ELSE [a |-> Atoi(n2), m |-> 1]
    IN  IF r.a.err THEN 0 ELSE r.a.val * r.m

\* the amount a nominal token stands for: spaces and dots are removed and
\* the text lower-cased, then the first of "jt", "rb", "k" the text
\* contains is removed everywhere and sets the multiplier; a remainder that
\* is no integer gives 0
normalizeNominal(nominal) ==
    LET n1 == ToLower(RemoveAll(nominal, <<" ">>))
        n2 == RemoveAll(n1, <<".">>)
        jt == <<"j", "t">>
        rb == <<"r", "b">>
        k == <<"k">>
        r == IF Contains(n2, jt) THEN [a |-> Atoi(RemoveAll(n2, jt)), m |-> 1000000]
             ELSE IF Contains(n2, rb) THEN [a |-> Atoi(RemoveAll(n2, rb)), m |-> 1000]
             ELSE IF Contains(n2, k) THEN [a |-> Atoi(RemoveAll(n2, k)), m |-> 1000]
             ELSE [a |-> Atoi(n2), m |-> 1]
    IN  IF r.a.err THEN 0 ELSE r.a.val * r.m

-----------------------------------------------------------------------------
(* Time: an instant is a number of model units since 1970-01-01 00:00 UTC; *)
(* tz is the offset of the local zone (time.Local) in hours                *)

MinuteUnits == UnitsPerMinute
HourUnits == 60 * MinuteUnits
DayUnits == 24 * HourUnits

\* days since 1970-01-01 of the civil date y-m-d
DaysFromCivil(y, m, d) ==
    LET yy == IF m <= 2 THEN y - 1 ELSE y
        era == yy \div 400
        yoe == yy - era * 400
        mp == IF m > 2 THEN m - 3 ELSE m + 9
        doy == (153 * mp + 2) \div 5 + d - 1
        doe == yoe * 365 + yoe \div 4 - yoe \div 100 + doy
    IN  era * 146097 + doe - 719468

\* the civil date <<y, m, d>> of a day number
CivilFromDays(z) ==
    LET zz == z + 719468
        era == zz \div 146097
        doe == zz - era * 146097
        yoe == (doe - doe \div 1460 + doe \div 36524 - doe \div 146096) \div 365
        doy == doe - (365 * yoe + yoe \div 4 - yoe \div 100)
        mp == (5 * doy + 2) \div 153
        d == doy - (153 * mp + 2) \div 5 + 1
        m == IF mp < 10 THEN mp + 3 ELSE mp - 9
    IN  <<IF m <= 2 THEN yoe + era * 400 + 1 ELSE yoe + era * 400, m, d>>

\* the local day number, hour of day, day of month and weekday (Sunday = 0)
\* of an instant: Time.Hour, Time.Day, Time.Weekday in the zone zone
LocalDay(t, zone) == (t + zone * HourUnits) \div DayUnits
Hour(t, zone) == ((t + zone * HourUnits) % DayUnits) \div HourUnits
Day(t, zone) == CivilFromDays(LocalDay(t, zone))[3]
Weekday(t, zone) == (LocalDay(t, zone) + 4) % 7

Pad(n, width) ==
    [i \in 1..(width - Len(NatToText(n))) |-> "0"] \o NatToText(n)

\* Time.Format("02-01-2006") of the local date
FormatDate(t, zone) ==
    LET c == CivilFromDays(LocalDay(t, zone))
    IN  Pad(c[3], 2) \o <<"-">> \o Pad(c[2], 2) \o <<"-">> \o Pad(c[1], 4)

DaysInMonth(y, m) == DaysFromCivil(IF m = 12 THEN y + 1 ELSE y, IF m = 12 THEN 1 ELSE m + 1, 1)
                         - DaysFromCivil(y, m, 1)

\* time.Parse("02-01-2006", s): two digits, "-", two digits, "-", four
\* digits naming a date that exists; the instant is that date's midnight UTC
ParseDate(s) ==
    LET shape == /\ Len(s) = 10
                 /\ s[3] = "-" /\ s[6] = "-"
                 /\ AllDigits(SubSeq(s, 1, 2))
                 /\ AllDigits(SubSeq(s, 4, 5))
                 /\ AllDigits(SubSeq(s, 7, 10))
        d == DigitsValue(SubSeq(s, 1, 2))
        m == DigitsValue(SubSeq(s, 4, 5))
        y == DigitsValue(SubSeq(s, 7, 10))
    IN  IF shape /\ m \in 1..12 /\ d >= 1 /\ d <= DaysInMonth(y, m)
        THEN [err |-> FALSE, t |-> DaysFromCivil(y, m, d) * DayUnits]
        ELSE [err |-> TRUE, t |-> 0]

-----------------------------------------------------------------------------
(* The ledger sheet (columns A:E) and the backend calls on it.  A row is    *)
(* five text cells, or <<>> when it holds nothing; the sheet is kept        *)
(* without empty rows at its end, as Values.Get reports it.                 *)

\* the header row the summaries skip
Header == << <<"N", "o">>, <<"T", "g", "l">>, <<"N", "o", "m">>, <<"K", "a", "t">>,
             <<"K", "e", "t">> >>

\* a sequence without the empty elements at its end: Values.Get leaves out
\* the empty cells at the end of a row and the empty rows at the end of a range
RECURSIVE TrimEnd(_)
TrimEnd(s) ==
    IF s # <<>> /\ s[Len(s)] = <<>> THEN TrimEnd(SubSeq(s, 1, Len(s) - 1)) ELSE s

\* resp.Values of Values.Get("A:E")
Values(sh) == [i \in 1..Len(sh) |-> TrimEnd(sh[i])]

\* resp.Values of Values.Get("A<n>:E<n>")
RowValues(sh, n) == IF n \in 1..Len(sh) /\ sh[n] # <<>> THEN <<TrimEnd(sh[n])>> ELSE <<>>

\* resp.Values of Values.Get for one column (1 = A, 3 = C)
Column(sh, c) ==
    TrimEnd([i \in 1..Len(sh) |->
                 IF Len(sh[i]) >= c /\ sh[i][c] # <<>> THEN <<sh[i][c]>> ELSE <<>>])

\* Values.Append at "A1": the row goes below the table that starts at A1
SheetAppend(sh, row) ==
    IF \E i \in 1..Len(sh) : sh[i] = <<>>
    THEN [sh EXCEPT ![CHOOSE i \in 1..Len(sh) :
                          sh[i] = <<>> /\ \A j \in 1..(i - 1) : sh[j] # <<>>] = row]
    ELSE Append(sh, row)

\* Values.Update of "A<n>:E<n>"
SheetUpdate(sh, n, row) ==
    [i \in 1..(IF n > Len(sh) THEN n ELSE Len(sh)) |->
        IF i = n THEN row ELSE IF i <= Len(sh) THEN sh[i] ELSE <<>>]

\* Values.Clear of "A<n>:E<n>"
SheetClear(sh, n) ==
    IF n \in 1..Len(sh) THEN TrimEnd([sh EXCEPT ![n] = <<>>]) ELSE sh

\* the row appendData and editEntry write
EntryRow(pos, t, zone, nominal, budget, keterangan) ==
    <<Itoa(pos), FormatDate(t, zone), Itoa(nominal), budget, keterangan>>

\* (mutant) the row is numbered with the row count
appendData_CountAsPosition(sh, t, zone, nominal, budget, keterangan, fail) ==
    IF fail \in {1, 2}
    THEN [err |-> TRUE, sheet |-> sh]
    ELSE [err |-> FALSE,
          sheet |-> SheetAppend(sh, EntryRow(Len(Column(sh, 1)), t, zone, nominal, budget,
                                             keterangan))]

\* (mutant) an append that reports an error has written its row
appendData_WritesOnError(sh, t, zone, nominal, budget, keterangan, fail) ==
    IF fail = 1
    THEN [err |-> TRUE, sheet |-> sh]
    ELSE [err |-> fail = 2,
          sheet |-> SheetAppend(sh, EntryRow(Len(Column(sh, 1)) + 1, t, zone, nominal, budget,
                                             keterangan))]

\* (mutant) on a table of two rows or more the row is written over the
\* last row instead of below it
appendData_OverwritesLast(sh, t, zone, nominal, budget, keterangan, fail) ==
    LET nextRow == Len(Column(sh, 1)) + 1
        row == EntryRow(nextRow, t, zone, nominal, budget, keterangan)
    IN  IF fail \in {1, 2}
        THEN [err |-> TRUE, sheet |-> sh]
        ELSE [err |-> FALSE,
              sheet |-> IF Len(sh) >= 2 THEN SheetUpdate(sh, Len(sh), row)
                        ELSE SheetAppend(sh, row)]

\* appendData: reads column A for the row count, then appends the row
\* numbered count + 1; fail names the backend call that fails (0: none)
appendData(sh, t, zone, nominal, budget, keterangan, fail) ==
    LET nextRow == Len(Column(sh, 1)) + 1
    IN  IF fail \in {1, 2}
        THEN [err |-> TRUE, sheet |-> sh]
        ELSE [err |-> FALSE,
              sheet |-> SheetAppend(sh, EntryRow(nextRow, t, zone, nominal, budget, keterangan))]

\* editEntry: overwrites row rowNumber
editEntry(sh, t, zone, rowNumber, nominal, budget, keterangan, failed) ==
    IF failed
    THEN [err |-> TRUE, sheet |-> sh]
    ELSE [err |-> FALSE,
          sheet |-> SheetUpdate(sh, rowNumber,
                                EntryRow(rowNumber, t, zone, nominal, budget, keterangan))]

\* removeLastEntry: clears the last row of column A's range, unless fewer
\* than two rows are there; the read is call 1 and the clear call 2
removeLastEntry(sh, fail) ==
    IF fail = 1 THEN [err |-> TRUE, sheet |-> sh]
    ELSE IF Len(Column(sh, 1)) < 2 THEN [err |-> TRUE, sheet |-> sh]
    ELSE IF fail = 2 THEN [err |-> TRUE, sheet |-> sh]
    ELSE [err |-> FALSE, sheet |-> SheetClear(sh, Len(Column(sh, 1)))]

\* the sum of the cells of s that Atoi accepts
RECURSIVE SumCells(_)
SumCells(s) ==
    IF s = <<>> THEN 0
    ELSE (IF s[1] # <<>> /\ ~Atoi(s[1][1]).err THEN Atoi(s[1][1]).val ELSE 0)
             + SumCells(Tail(s))

\* getSummary: the total of column C, 0 when the read fails
getSummary(sh, failed) == IF failed THEN 0 ELSE SumCells(Column(sh, 3))

\* the text a function returns or a reply carries: its kind and its fields
Out(kind, body) == [kind |-> kind, body |-> body]

\* getLastEntry
getLastEntry(sh, failed) ==
    IF failed THEN [err |-> TRUE, out |-> Out("", <<>>)]
    ELSE IF Len(Values(sh)) < 2 THEN [err |-> FALSE, out |-> Out("NoData", <<>>)]
    ELSE IF Len(Values(sh)[Len(sh)]) < 5
         THEN [err |-> FALSE, out |-> Out("InvalidFormat", <<>>)]
    ELSE [err |-> FALSE, out |-> Out("LastEntry", Values(sh)[Len(sh)])]

\* getEntryByNumber
getEntryByNumber(sh, rowNumber, failed) ==
    IF failed \/ rowNumber < 1 THEN [err |-> TRUE, out |-> Out("", <<>>)]
    ELSE IF RowValues(sh, rowNumber) = <<>> THEN [err |-> TRUE, out |-> Out("", <<>>)]
    ELSE IF Len(RowValues(sh, rowNumber)[1]) < 5 THEN [err |-> TRUE, out |-> Out("", <<>>)]
    ELSE [err |-> FALSE, out |-> Out("Entry", Tail(RowValues(sh, rowNumber)[1]))]

\* the rows after the header with five cells and a date that parses to an
\* instant after lo and before hi, in order
RECURSIVE RowsBetween(_, _, _)
RowsBetween(rows, lo, hi) ==
    IF rows = <<>> THEN <<>>
    ELSE LET row == rows[1]
             keep == /\ Len(row) >= 5
                     /\ ~ParseDate(row[2]).err
                     /\ ParseDate(row[2]).t > lo
                     /\ ParseDate(row[2]).t < hi
         IN  (IF keep THEN <<row>> ELSE <<>>) \o RowsBetween(Tail(rows), lo, hi)

\* the total of the amounts of rows (an amount Atoi rejects counts 0)
RECURSIVE SumAmounts(_)
SumAmounts(rows) ==
    IF rows = <<>> THEN 0 ELSE Atoi(rows[1][3]).val + SumAmounts(Tail(rows))

\* the lines of a period summary: date, amount, category, note of each row
RECURSIVE EntryLines(_)
EntryLines(rows) ==
    IF rows = <<>> THEN <<>>
    ELSE <<rows[1][2], rows[1][3], rows[1][4], rows[1][5]>> \o EntryLines(Tail(rows))

\* getWeeklySummary: weekStart is now moved back by now's weekday in days
\* (the time of day is kept), weekEnd six days later
getWeeklySummary(sh, t, zone, failed) ==
    LET weekStart == t - Weekday(t, zone) * DayUnits
        weekEnd == weekStart + 6 * DayUnits
        rows == RowsBetween(Tail(Values(sh)), weekStart, weekEnd + DayUnits)
    IN  IF failed THEN [err |-> TRUE, out |-> Out("", <<>>)]
        ELSE IF Len(Values(sh)) < 2 THEN [err |-> FALSE, out |-> Out("NoData", <<>>)]
        ELSE IF rows = <<>> THEN [err |-> FALSE, out |-> Out("WeeklyEmpty", <<>>)]
        ELSE [err |-> FALSE,
              out |-> Out("Weekly", <<Itoa(SumAmounts(rows))>> \o EntryLines(rows))]

\* getMonthlySummary: monthStart is the local midnight of the first day of
\* now's month, monthEnd the local midnight of its last day
getMonthlySummary(sh, t, zone, failed) ==
    LET c == CivilFromDays(LocalDay(t, zone))
        monthStart == DaysFromCivil(c[1], c[2], 1) * DayUnits - zone * HourUnits
        monthEnd == monthStart + (DaysInMonth(c[1], c[2]) - 1) * DayUnits
        rows == RowsBetween(Tail(Values(sh)), monthStart - DayUnits, monthEnd + DayUnits)
    IN  IF failed THEN [err |-> TRUE, out |-> Out("", <<>>)]
        ELSE IF Len(Values(sh)) < 2 THEN [err |-> FALSE, out |-> Out("NoData", <<>>)]
        ELSE IF rows = <<>> THEN [err |-> FALSE, out |-> Out("MonthlyEmpty", <<>>)]
        ELSE [err |-> FALSE,
              out |-> Out("Monthly", <<Itoa(SumAmounts(rows))>> \o EntryLines(rows))]

\* formatRupiah: a dot before every digit whose distance to the end is a
\* multiple of three, the first character excepted
formatRupiah(nominal) ==
    LET str == Itoa(nominal)
        piece(i) == IF (Len(str) - (i - 1)) % 3 = 0 /\ i # 1 THEN <<".", str[i]>> ELSE <<str[i]>>
        F[i \in 0..Len(str)] == IF i = 0 THEN <<>> ELSE F[i - 1] \o piece(i)
    IN  F[Len(str)]

\* the lines of the history: number, amount, category, note of each row
\* with five cells; the number counts the rows skipped too
RECURSIVE HistoryLines(_, _)
HistoryLines(rows, i) ==
    IF rows = <<>> THEN <<>>
    ELSE (IF Len(rows[1]) < 5 THEN <<>>
          ELSE <<Itoa(i), formatRupiah(Atoi(rows[1][3]).val), rows[1][4], rows[1][5]>>)
             \o HistoryLines(Tail(rows), i + 1)

\* getLastFiveEntries
getLastFiveEntries(sh, failed) ==
    LET n == Len(Values(sh))
        startIdx == IF n - 5 < 1 THEN 1 ELSE n - 5
    IN  IF failed THEN [err |-> TRUE, out |-> Out("", <<>>)]
        ELSE IF n < 2 THEN [err |-> FALSE, out |-> Out("NoData", <<>>)]
        ELSE [err |-> FALSE,
              out |-> Out("History", HistoryLines(SubSeq(Values(sh), startIdx + 1, n), 1))]

-----------------------------------------------------------------------------
(* State *)

VARIABLES
    sheet,            \* the ledger sheet of the backend
    editingState,     \* editingState: chat -> row number being edited
    reply,            \* the message most recently sent to a chat by the router
    update,           \* the inbound update most recently handled
    session,          \* per chat, the state the specified router machine is in
    prior,            \* that state of update's chat before the update was handled
    now,              \* the wall clock
    tz,               \* the local zone's offset from UTC, in hours
    prefSheet,        \* the Preferences sheet of the backend
    userPreferences,  \* userPreferences: chat -> UserPreference
    mainPc,           \* where main is in startReminderScheduler
    loopPc,           \* the tick loop goroutine
    sigPc,            \* the signal goroutine
    tickerRunning,    \* the ticker has been created and not stopped
    nextTick,         \* the instant of the ticker's next tick
    tickerC,          \* ticker.C, a channel of capacity 1
    units,            \* the dispatch goroutines in flight
    started,          \* per chat, the dispatch goroutines started so far
    sent,             \* per chat, the reminders delivered so far
    evaluated,        \* the instant t of the tick most recently evaluated, or 0
    crashed           \* a goroutine has panicked: the process is gone

ledgerVars == <<sheet, editingState, reply, update, session, prior>>
clockVars == <<now, tz>>
schedVars == <<prefSheet, userPreferences, mainPc, loopPc, sigPc, tickerRunning, nextTick,
               tickerC, units, started, sent, evaluated, crashed>>
vars == <<ledgerVars, clockVars, schedVars>>

\* the chats that write to the bot
Chats == {101, 102}

-----------------------------------------------------------------------------
(* handleUpdate *)

EditPrefix == <<"/", "e", "d", "i", "t", " ">>

\* delete(m, k) and m[k] = v on a Go map
MapDelete(m, k) == [x \in DOMAIN m \ {k} |-> m[x]]
MapSet(m, k, v) == [x \in DOMAIN m \cup {k} |-> IF x = k THEN v ELSE m[x]]

\* what one call of handleUpdate leaves behind
Effect(es, sh, out) == [editingState |-> es, sheet |-> sh, reply |-> out]

\* (mutant) the edit case matches every text that starts with "/edit "
IsEditCommand_Prefix(text) == HasPrefix(text, EditPrefix)

\* the switch case of the edit command
IsEditCommand(text) == text = EditPrefix \o text

\* the branch for a chat that is in editingState: three fields are the
\* replacement of row editingState[chatId]; editEntry is backend call 1,
\* the read of the edited row call 2
EditingBranch(es, sh, t, zone, chatId, text, fail) ==
    LET parts == Split(text, ",")
        editingRow == es[chatId]
        normalizedNominal == normalizeNominal(TrimSpace(parts[1]))
        e == editEntry(sh, t, zone, editingRow, normalizedNominal,
                       TrimSpace(parts[2]), TrimSpace(parts[3]), fail = 1)
    IN  IF Len(parts) = 3
        THEN IF e.err
             THEN Effect(MapDelete(es, chatId), e.sheet, Out("EditFailed", <<>>))
             ELSE Effect(MapDelete(es, chatId), e.sheet,
                         Out("Edited", getEntryByNumber(e.sheet, editingRow, fail = 2).out.body))
        ELSE Effect(es, sh, Out("EditFormatError", <<>>))

\* the command switch
CommandSwitch(es, sh, t, zone, chatId, text, fail) ==
    LET T(kind) == Effect(es, sh, Out(kind, <<>>))
        rowNumber == Atoi(TrimPrefix(text, EditPrefix))
        entry == getEntryByNumber(sh, rowNumber.val, fail = 1)
        weekly == getWeeklySummary(sh, t, zone, fail = 1)
        monthly == getMonthlySummary(sh, t, zone, fail = 1)
        last == getLastEntry(sh, fail = 1)
        removed == removeLastEntry(sh, fail - 1)
        history == getLastFiveEntries(sh, fail = 1)
    IN  IF text = <<"/", "s", "t", "a", "r", "t">> THEN T("Start")
        ELSE IF text = <<"/", "h", "e", "l", "p">> THEN T("Help")
        ELSE IF IsEditCommand(text)
             THEN IF rowNumber.err THEN T("InvalidNumber")
                  ELSE IF entry.err THEN T("NotFound")
                  ELSE Effect(MapSet(es, chatId, rowNumber.val), sh,
                              Out("EditPrompt", <<Itoa(rowNumber.val)>> \o entry.out.body))
        ELSE IF text = <<"/", "s", "u", "m", "m", "a", "r", "y">>
             THEN Effect(es, sh, Out("Summary", <<Itoa(getSummary(sh, fail = 1))>>))
        ELSE IF text = <<"/", "w", "e", "e", "k", "l", "y">>
             THEN IF weekly.err THEN T("WeeklyFailed") ELSE Effect(es, sh, weekly.out)
        ELSE IF text = <<"/", "m", "o", "n", "t", "h", "l", "y">>
             THEN IF monthly.err THEN T("MonthlyFailed") ELSE Effect(es, sh, monthly.out)
        ELSE IF text = <<"/", "l", "a", "s", "t">>
             THEN IF last.err THEN T("LastFailed") ELSE Effect(es, sh, last.out)
        ELSE IF text = <<"/", "r", "e", "m", "o", "v", "e">>
             THEN IF last.err THEN T("LastFailed")
                  ELSE IF removed.err THEN Effect(es, removed.sheet, Out("RemoveFailed", <<>>))
                  ELSE Effect(es, removed.sheet,
                              Out("Removed", <<<<last.out.kind>>>> \o last.out.body))
        ELSE IF text = <<"/", "h", "i", "s", "t", "o", "r", "y">>
             THEN IF history.err THEN T("HistoryFailed") ELSE Effect(es, sh, history.out)
        ELSE IF text = <<"/", "r", "e", "m", "i", "n", "d", "e", "r">> THEN T("ReminderMenu")
        ELSE T("Unrecognized")

\* (mutant) the failure reply of a data input carries the total
DataInput_TotalOnError(es, sh, t, zone, chatId, text, fail) ==
    LET parts == Split(text, ",")
        normalizedNominal == normalizeNominal(TrimSpace(parts[1]))
        a == appendData(sh, t, zone, normalizedNominal,
                        TrimSpace(parts[2]), TrimSpace(parts[3]), fail)
    IN  IF Len(parts) = 3
        THEN Effect(es, a.sheet,
                    Out(IF a.err THEN "AppendFailed" ELSE "Added",
                        <<Itoa(normalizedNominal), TrimSpace(parts[2]),
                          TrimSpace(parts[3]), Itoa(getSummary(a.sheet, fail = 3))>>))
        ELSE Effect(es, sh, Out("FormatError", <<>>))

\* the data input: three fields are appended as a new entry, and the reply
\* carries the total read afterwards (backend call 3)
DataInput(es, sh, t, zone, chatId, text, fail) ==
    LET parts == Split(text, ",")
        normalizedNominal == normalizeNominal(TrimSpace(parts[1]))
        a == appendData(sh, t, zone, normalizedNominal,
                        TrimSpace(parts[2]), TrimSpace(parts[3]), fail)
    IN  IF Len(parts) = 3
        THEN IF a.err
             THEN Effect(es, a.sheet, Out("AppendFailed", <<>>))
             ELSE Effect(es, a.sheet,
                         Out("Added", <<Itoa(normalizedNominal), TrimSpace(parts[2]),
                                        TrimSpace(parts[3]),
                                        Itoa(getSummary(a.sheet, fail = 3))>>))
        ELSE Effect(es, sh, Out("FormatError", <<>>))

\* (mutant) an edit command opens the session without looking the row up
HandleUpdate_EditUnchecked(es, sh, t, zone, chatId, text, fail) ==
    IF chatId \in DOMAIN es THEN EditingBranch(es, sh, t, zone, chatId, text, fail)
    ELSE IF HasPrefix(text, EditPrefix) /\ ~Atoi(TrimPrefix(text, EditPrefix)).err
         THEN Effect(MapSet(es, chatId, Atoi(TrimPrefix(text, EditPrefix)).val), sh,
                     Out("EditPrompt", <<>>))
    ELSE IF HasPrefix(text, <<"/">>) THEN CommandSwitch(es, sh, t, zone, chatId, text, fail)
    ELSE DataInput(es, sh, t, zone, chatId, text, fail)

\* handleUpdate for an update that carries a message
HandleUpdate(es, sh, t, zone, chatId, text, fail) ==
    IF chatId \in DOMAIN es THEN EditingBranch(es, sh, t, zone, chatId, text, fail)
    ELSE IF HasPrefix(text, <<"/">>) THEN CommandSwitch(es, sh, t, zone, chatId, text, fail)
    ELSE DataInput(es, sh, t, zone, chatId, text, fail)

\* the number of backend calls handleUpdate can reach for this update
BackendCalls(es, chatId, text) ==
    IF chatId \in DOMAIN es THEN (IF Len(Split(text, ",")) = 3 THEN 2 ELSE 0)
    ELSE IF HasPrefix(text, <<"/">>)
         THEN IF text = <<"/", "r", "e", "m", "o", "v", "e">> THEN 3
              ELSE IF \/ IsEditCommand(text)
                      \/ text \in {<<"/", "s", "u", "m", "m", "a", "r", "y">>,
                                   <<"/", "w", "e", "e", "k", "l", "y">>,
                                   <<"/", "m", "o", "n", "t", "h", "l", "y">>,
                                   <<"/", "l", "a", "s", "t">>,
                                   <<"/", "h", "i", "s", "t", "o", "r", "y">>} THEN 1
              ELSE 0
    ELSE IF Len(Split(text, ",")) = 3 THEN 3 ELSE 0

-----------------------------------------------------------------------------
(* The router machine of the specification (EditSession, section 4.4), run  *)
(* beside the code on the same inputs: awaiting is the position of          *)
(* AwaitingEditInput, 0 in Idle; missed tells that the chat's latest        *)
(* message was an edit command naming a position that does not exist.       *)

Idle == [awaiting |-> 0, missed |-> FALSE]

\* an edit command: "/edit " followed by an integer
NamesPosition(text) == HasPrefix(text, EditPrefix) /\ ~Atoi(TrimPrefix(text, EditPrefix)).err

SessionNext(s, sh, text) ==
    LET n == Atoi(TrimPrefix(text, EditPrefix)).val
    IN  IF s.awaiting # 0
        THEN IF Len(Split(text, ",")) = 3 THEN Idle ELSE s
        ELSE IF NamesPosition(text)
             THEN IF RowValues(sh, n) # <<>>
                  THEN [awaiting |-> n, missed |-> FALSE]
                  ELSE [awaiting |-> 0, missed |-> TRUE]
             ELSE Idle

-----------------------------------------------------------------------------
(* Inbound messages *)

TxtSummary == <<"/", "s", "u", "m", "m", "a", "r", "y">>
TxtWeekly == <<"/", "w", "e", "e", "k", "l", "y">>
TxtMonthly == <<"/", "m", "o", "n", "t", "h", "l", "y">>
TxtLast == <<"/", "l", "a", "s", "t">>
TxtRemove == <<"/", "r", "e", "m", "o", "v", "e">>
TxtHistory == <<"/", "h", "i", "s", "t", "o", "r", "y">>
TxtEdit2 == <<"/", "e", "d", "i", "t", " ", "2">>
TxtEdit9 == <<"/", "e", "d", "i", "t", " ", "9">>
\* "10rb, Food, a b"
TxtEntryA == <<"1", "0", "r", "b", ",", " ", "F", "o", "o", "d", ",", " ", "a", " ", "b">>
\* "1.5JT,rent,x"
TxtEntryB == <<"1", ".", "5", "J", "T", ",", "r", "e", "n", "t", ",", "x">>
\* "7k,tea"
TxtTwoFields == <<"7", "k", ",", "t", "e", "a">>

QueryCommands == {TxtSummary, TxtWeekly, TxtMonthly, TxtLast, TxtHistory, TxtRemove}

Texts == {TxtEdit2, TxtEdit9, TxtEntryA, TxtEntryB, TxtTwoFields} \cup QueryCommands

-----------------------------------------------------------------------------
(* The router: one update at a time *)

\* 2025-02-28 12:00 UTC
StartNow == DaysFromCivil(2025, 2, 28) * DayUnits + 12 * HourUnits

NoReply == [chat |-> 0, kind |-> "", body |-> <<>>]
NoUpdate == [chat |-> 0, text |-> <<>>, fail |-> 0]

\* the scheduler after startReminderScheduler has returned, with no
\* preference loaded
SchedulerIdle ==
    /\ prefSheet = <<>>
    /\ userPreferences = <<>>
    /\ mainPc = "returned"
    /\ loopPc = "select"
    /\ sigPc = "waiting"
    /\ tickerRunning = FALSE
    /\ nextTick = StartNow + MinuteUnits
    /\ tickerC = <<>>
    /\ units = {}
    /\ started = [c \in Chats |-> 0]
    /\ sent = [c \in Chats |-> 0]
    /\ evaluated = 0
    /\ crashed = FALSE

Init ==
    /\ sheet \in {<<>>, <<Header>>}
    /\ editingState = <<>>
    /\ reply = NoReply
    /\ update = NoUpdate
    /\ session = [c \in Chats |-> Idle]
    /\ prior = Idle
    /\ now = StartNow
    /\ tz = 0
    /\ SchedulerIdle

\* handleUpdate(bot, srv, update) for a message text of chat chatId, with
\* the backend failing at call fail (0: no failure)
handleUpdate(chatId, text, fail) ==
    /\ fail \in 0..BackendCalls(editingState, chatId, text)
    /\ \E r \in {HandleUpdate(editingState, sheet, now, tz, chatId, text, fail)} :
          /\ Len(r.sheet) <= MaxRows
          /\ sheet' = r.sheet
          /\ editingState' = r.editingState
          /\ reply' = [chat |-> chatId, kind |-> r.reply.kind, body |-> r.reply.body]
    /\ update' = [chat |-> chatId, text |-> text, fail |-> fail]
    /\ session' = [session EXCEPT ![chatId] = SessionNext(session[chatId], sheet, text)]
    /\ prior' = session[chatId]
    /\ UNCHANGED <<clockVars, schedVars>>

Next ==
    \E chatId \in Chats, text \in Texts, fail \in 0..3 : handleUpdate(chatId, text, fail)

Spec == Init /\ [][Next]_vars

-----------------------------------------------------------------------------
(* Claims about the router.  Every step of Spec that changes the state      *)
(* handles the update that update' records; session is the state of the     *)
(* specified machine before that step, prior (after it) the same for the    *)
(* chat of the update.                                                      *)

ThreeFields(text) == Len(Split(text, ",")) = 3
Field(text, i) == TrimSpace(Split(text, ",")[i])

\* the position an edit command names
Named(text) == Atoi(TrimPrefix(text, EditPrefix)).val

\* row n of the sheet holds an entry
EntryAt(sh, n) == n \in 1..Len(sh) /\ Len(TrimEnd(sh[n])) = 5

\* the row a well-formed message stands for, written at position pos
RowOf(text, pos) ==
    <<Itoa(pos), FormatDate(now, tz), Itoa(normalizeNominal(Field(text, 1))),
      Field(text, 2), Field(text, 3)>>

\* C1: from Idle, "/edit N" for a position N that exists replies with the
\* existing entry, puts the chat in AwaitingEditInput(N)
\* (editingState[chat] = N) and leaves the ledger unchanged.
C1_EditOpensSession ==
    [][\A c \in Chats :
          (/\ update'.chat = c
           /\ c \notin DOMAIN editingState
           /\ session[c].awaiting = 0
           /\ NamesPosition(update'.text)
           /\ EntryAt(sheet, Named(update'.text))
           /\ update'.fail = 0)
          => (/\ c \in DOMAIN editingState'
              /\ editingState'[c] = Named(update'.text)
              /\ reply'.chat = c
              /\ reply'.kind = "EditPrompt"
              /\ sheet' = sheet)]_vars

\* C2: "/edit N" for a position N that does not exist leaves the ledger
\* unchanged and opens no edit session; the chat's next three-field message
\* is appended as a new entry.
C2_MissingPositionNoSession ==
    [][\A c \in Chats :
          /\ (/\ update'.chat = c
              /\ NamesPosition(update'.text)
              /\ RowValues(sheet, Named(update'.text)) = <<>>)
             => (sheet' = sheet /\ c \notin DOMAIN editingState')
          /\ (/\ update'.chat = c
              /\ session[c].missed
              /\ ThreeFields(update'.text)
              /\ update'.fail \notin {1, 2})
             => (/\ sheet' = Append(sheet, RowOf(update'.text, Len(sheet) + 1))
                 /\ reply'.kind = "Added"
                 /\ c \notin DOMAIN editingState')]_vars

\* C2 witness: a three-field message has been appended right after the
\* chat's edit command for a missing position.
C2_Witness ==
    /\ prior.missed
    /\ ThreeFields(update.text)
    /\ reply.kind = "Added"
    /\ sheet[Len(sheet)][1] = Itoa(Len(sheet))

\* C3: in AwaitingEditInput(N), a message that is not three fields gets a
\* format reminder and leaves the chat in AwaitingEditInput(N) and the
\* ledger unchanged.
C3_MalformedKeepsSession ==
    [][\A c \in Chats :
          (/\ update'.chat = c
           /\ session[c].awaiting # 0
           /\ ~ThreeFields(update'.text)
           /\ ~HasPrefix(update'.text, <<"/">>))
          => (/\ reply'.kind \in {"EditFormatError", "FormatError"}
              /\ sheet' = sheet
              /\ c \in DOMAIN editingState'
              /\ editingState'[c] = session[c].awaiting)]_vars

\* C4: in AwaitingEditInput(N), a three-field message whose update succeeds
\* overwrites row N with (N, today, amount, category, note), leaves every
\* other row unchanged and returns the chat to Idle.
C4_CommitOverwritesRow ==
    [][\A c \in Chats :
          (/\ update'.chat = c
           /\ session[c].awaiting # 0
           /\ EntryAt(sheet, session[c].awaiting)
           /\ ThreeFields(update'.text)
           /\ update'.fail = 0)
          => (/\ sheet' = [sheet EXCEPT ![session[c].awaiting] =
                                            RowOf(update'.text, session[c].awaiting)]
              /\ c \notin DOMAIN editingState')]_vars

\* the write of a three-field message fails: one of its two backend calls
\* (the read of column A, the write of the row) returns an error
WriteFails(fail) == fail \in {1, 2}

-----------------------------------------------------------------------------
(* Reminder preferences *)

Daily == <<"d", "a", "i", "l", "y">>
Weekly == <<"w", "e", "e", "k", "l", "y">>
Monthly == <<"m", "o", "n", "t", "h", "l", "y">>
None == <<"n", "o", "n", "e">>

\* the zero time.Time, 0001-01-01 00:00 UTC
ZeroTime == DaysFromCivil(1, 1, 1) * DayUnits

\* Time.Format("2006-01-02") of the local date
FormatISO(t, zone) ==
    LET c == CivilFromDays(LocalDay(t, zone))
    IN  Pad(c[1], 4) \o <<"-">> \o Pad(c[2], 2) \o <<"-">> \o Pad(c[3], 2)

\* time.Parse("2006-01-02", s) with the error dropped: the date's midnight
\* UTC, the zero time when s is no date
ParseISO(s) ==
    LET shape == /\ Len(s) = 10
                 /\ s[5] = "-" /\ s[8] = "-"
                 /\ AllDigits(SubSeq(s, 1, 4))
                 /\ AllDigits(SubSeq(s, 6, 7))
                 /\ AllDigits(SubSeq(s, 9, 10))
        y == DigitsValue(SubSeq(s, 1, 4))
        m == DigitsValue(SubSeq(s, 6, 7))
        d == DigitsValue(SubSeq(s, 9, 10))
    IN  IF shape /\ m \in 1..12 /\ d >= 1 /\ d <= DaysInMonth(y, m)
        THEN DaysFromCivil(y, m, d) * DayUnits
        ELSE ZeroTime

\* loadUserPreferences: every row after the first with three cells gives
\* the preference of its chat; a later row of the same chat wins
RECURSIVE LoadRows(_, _)
LoadRows(rows, prefs) ==
    IF rows = <<>> THEN prefs
    ELSE LoadRows(Tail(rows),
                  IF Len(rows[1]) >= 3
                  THEN MapSet(prefs, Atoi(rows[1][1]).val,
                              [ChatID |-> Atoi(rows[1][1]).val,
                               ReminderType |-> rows[1][2],
                               LastReminder |-> ParseISO(rows[1][3])])
                  ELSE prefs)

loadUserPreferences(ps) == IF ps = <<>> THEN <<>> ELSE LoadRows(Tail(Values(ps)), <<>>)

\* saveUserPreference: the first row whose column A is the chat, else the
\* row below the last, is overwritten with the preference
saveUserPreference(ps, pref, zone, failed) ==
    LET colA == Column(ps, 1)
        hit == {i \in 1..Len(colA) : colA[i] # <<>> /\ colA[i][1] = Itoa(pref.ChatID)}
        rowNum == IF hit # {} THEN CHOOSE i \in hit : \A j \in hit : i <= j
                  ELSE Len(colA) + 1
    IN  IF failed THEN [err |-> TRUE, sheet |-> ps]
        ELSE [err |-> FALSE,
              sheet |-> SheetUpdate(ps, rowNum,
                                    <<Itoa(pref.ChatID), pref.ReminderType,
                                      FormatISO(pref.LastReminder, zone)>>)]

\* (mutant) the daily threshold is exclusive: more than 24 hours
shouldSend_DailyStrict(pref, t, zone) ==
    IF pref.ReminderType = Daily
    THEN Hour(t, zone) = 20 /\ t - pref.LastReminder > DayUnits
    ELSE IF pref.ReminderType = Weekly
    THEN Weekday(t, zone) = 0 /\ Hour(t, zone) = 20 /\ t - pref.LastReminder >= 7 * DayUnits
    ELSE IF pref.ReminderType = Monthly
    THEN Day(t, zone) = 1 /\ Hour(t, zone) = 20 /\ t - pref.LastReminder >= 30 * DayUnits
    ELSE FALSE

\* (mutant) the monthly reminder does not look at the day of the month
shouldSend_MonthlyAnyDay(pref, t, zone) ==
    IF pref.ReminderType = Daily
    THEN Hour(t, zone) = 20 /\ t - pref.LastReminder >= DayUnits
    ELSE IF pref.ReminderType = Weekly
    THEN Weekday(t, zone) = 0 /\ Hour(t, zone) = 20 /\ t - pref.LastReminder >= 7 * DayUnits
    ELSE IF pref.ReminderType = Monthly
    THEN Hour(t, zone) = 20 /\ t - pref.LastReminder >= 30 * DayUnits
    ELSE FALSE

\* shouldSend of the tick loop, for the tick instant t
shouldSend(pref, t, zone) ==
    IF pref.ReminderType = Daily
    THEN Hour(t, zone) = 20 /\ t - pref.LastReminder >= DayUnits
    ELSE IF pref.ReminderType = Weekly
    THEN Weekday(t, zone) = 0 /\ Hour(t, zone) = 20 /\ t - pref.LastReminder >= 7 * DayUnits
    ELSE IF pref.ReminderType = Monthly
    THEN Day(t, zone) = 1 /\ Hour(t, zone) = 20 /\ t - pref.LastReminder >= 30 * DayUnits
    ELSE FALSE

\* the rows whose date cell is the text today
RECURSIVE RowsOn(_, _)
RowsOn(rows, today) ==
    IF rows = <<>> THEN <<>>
    ELSE (IF Len(rows[1]) >= 5 /\ rows[1][2] = today THEN <<rows[1]>> ELSE <<>>)
             \o RowsOn(Tail(rows), today)

RECURSIVE DailyLines(_)
DailyLines(rows) ==
    IF rows = <<>> THEN <<>>
    ELSE <<rows[1][3], rows[1][4], rows[1][5]>> \o DailyLines(Tail(rows))

\* getDailySummary: resp.Values[1:] panics when the sheet has no row
getDailySummary(sh, t, zone, failed) ==
    LET rows == RowsOn(Tail(Values(sh)), FormatDate(t, zone))
    IN  IF failed THEN [err |-> TRUE, panic |-> FALSE, out |-> Out("", <<>>)]
        ELSE IF Values(sh) = <<>> THEN [err |-> FALSE, panic |-> TRUE, out |-> Out("", <<>>)]
        ELSE IF rows = <<>> THEN [err |-> FALSE, panic |-> FALSE, out |-> Out("DailyEmpty", <<>>)]
        ELSE [err |-> FALSE, panic |-> FALSE,
              out |-> Out("Daily", <<Itoa(SumAmounts(rows))>> \o DailyLines(rows))]

\* the summary sendReminder computes for a reminder type
ReminderSummary(type, sh, t, zone, failed) ==
    IF type = Daily THEN getDailySummary(sh, t, zone, failed)
    ELSE IF type = Weekly
         THEN [err |-> getWeeklySummary(sh, t, zone, failed).err, panic |-> FALSE,
               out |-> getWeeklySummary(sh, t, zone, failed).out]
    ELSE IF type = Monthly
         THEN [err |-> getMonthlySummary(sh, t, zone, failed).err, panic |-> FALSE,
               out |-> getMonthlySummary(sh, t, zone, failed).out]
    ELSE [err |-> FALSE, panic |-> FALSE, out |-> Out("", <<>>)]

-----------------------------------------------------------------------------
(* The scheduler: startReminderScheduler, the ticker, the tick loop, the    *)
(* dispatch goroutines (sendReminder) and the signal goroutine.  No bound   *)
(* is known on the time main takes between two statements, so the clock may *)
(* advance anywhere.                                                        *)

\* 2025-06-01 (a Sunday) 19:59 UTC
SchedStart == DaysFromCivil(2025, 6, 1) * DayUnits + 19 * HourUnits + 59 * MinuteUnits

\* the zone and the instant the process starts in: 19:59 local time on
\* 2025-06-01 in UTC and in UTC-5, 00:59 on 2025-06-02 in UTC
StartConfigs ==
    {[tz |-> 0, now |-> SchedStart],
     [tz |-> 0 - 5, now |-> SchedStart + 5 * HourUnits],
     [tz |-> 0, now |-> SchedStart + 5 * HourUnits]}

\* the time that has passed since the process started
Elapsed(t) == IF t >= SchedStart + 5 * HourUnits THEN t - (SchedStart + 5 * HourUnits)
              ELSE t - SchedStart

PrefHeader == << <<"I", "D">>, <<"T", "y", "p", "e">>, <<"L", "a", "s", "t">> >>
PrefRow(chatID, type, day) == <<Itoa(chatID), type, FormatISO(day * DayUnits, 0)>>

\* the Preferences sheets the process starts with: chat 101 reminded daily,
\* last on 2025-06-01; or last on 2025-05-31, and chat 102 reminded weekly,
\* last on 2025-05-25
PrefSheets ==
    LET d0 == DaysFromCivil(2025, 6, 1)
    IN  {<<PrefHeader, PrefRow(101, Daily, d0)>>,
         <<PrefHeader, PrefRow(101, Daily, d0 - 1), PrefRow(102, Weekly, d0 - 7)>>}

\* the ledger sheets the scheduler reads: no row at all, or a header and
\* one entry of 2025-06-01
SchedSheets ==
    {<<>>, <<Header, EntryRow(2, SchedStart, 0, 10000, <<"F", "o", "o", "d">>, <<"a">>)>>}

InitSched ==
    /\ sheet \in SchedSheets
    /\ editingState = <<>>
    /\ reply = NoReply
    /\ update = NoUpdate
    /\ session = [c \in Chats |-> Idle]
    /\ prior = Idle
    /\ \E cfg \in StartConfigs : now = cfg.now /\ tz = cfg.tz
    /\ prefSheet \in PrefSheets
    /\ userPreferences = loadUserPreferences(prefSheet)
    /\ mainPc = "start"
    /\ loopPc = "notStarted"
    /\ sigPc = "notStarted"
    /\ tickerRunning = FALSE
    /\ nextTick = 0
    /\ tickerC = <<>>
    /\ units = {}
    /\ started = [c \in Chats |-> 0]
    /\ sent = [c \in Chats |-> 0]
    /\ evaluated = 0
    /\ crashed = FALSE

\* startReminderScheduler up to its return: the ticker is created with a
\* period of one minute, the tick loop and the signal goroutine are started
StartScheduler ==
    /\ ~crashed /\ mainPc = "start"
    /\ mainPc' = "started"
    /\ tickerRunning' = TRUE
    /\ nextTick' = now + MinuteUnits
    /\ loopPc' = "select"
    /\ sigPc' = "waiting"
    /\ UNCHANGED <<ledgerVars, clockVars, prefSheet, userPreferences, tickerC, units, started,
                   sent, evaluated, crashed>>

\* startReminderScheduler returns: the deferred ticker.Stop() runs
Return ==
    /\ ~crashed /\ mainPc = "started"
    /\ mainPc' = "returned"
    /\ tickerRunning' = FALSE
    /\ UNCHANGED <<ledgerVars, clockVars, prefSheet, userPreferences, loopPc, sigPc, nextTick,
                   tickerC, units, started, sent, evaluated, crashed>>

\* the running ticker reaches its next tick: the instant goes to ticker.C,
\* or is dropped when the channel is full
TickerFire ==
    /\ ~crashed /\ tickerRunning /\ nextTick <= now
    /\ tickerC' = IF tickerC = <<>> THEN <<nextTick>> ELSE tickerC
    /\ nextTick' = nextTick + MinuteUnits
    /\ UNCHANGED <<ledgerVars, clockVars, prefSheet, userPreferences, mainPc, loopPc, sigPc,
                   tickerRunning, units, started, sent, evaluated, crashed>>

\* the chats the tick loop starts a dispatch for at the tick instant t
Due(prefs, t, zone) ==
    {c \in DOMAIN prefs : prefs[c].ReminderType # None /\ shouldSend(prefs[c], t, zone)}

\* (mutant) the loop takes a tick only when no dispatch is in flight
LoopTick_WaitsForDispatch ==
    /\ ~crashed /\ loopPc = "select" /\ tickerC # <<>>
    /\ units = {}
    /\ \E due \in {Due(userPreferences, tickerC[1], tz)} :
          /\ units' = units \cup
                 {[chat |-> c, n |-> started[c] + 1, at |-> tickerC[1],
                   type |-> userPreferences[c].ReminderType,
                   pc |-> "summary", out |-> Out("", <<>>),
                   pref |-> userPreferences[c]] : c \in due}
          /\ started' = [c \in Chats |-> IF c \in due THEN started[c] + 1 ELSE started[c]]
    /\ evaluated' = tickerC[1]
    /\ tickerC' = <<>>
    /\ UNCHANGED <<ledgerVars, clockVars, prefSheet, userPreferences, mainPc, loopPc, sigPc,
                   tickerRunning, nextTick, sent, crashed>>

\* case t := <-ticker.C: a goroutine running sendReminder is started for
\* every preference that is due (n numbers the chat's dispatches, at is
\* the tick instant, pref the preference as the loop read it)
LoopTick ==
    /\ ~crashed /\ loopPc = "select" /\ tickerC # <<>>
    /\ \E due \in {Due(userPreferences, tickerC[1], tz)} :
          /\ units' = units \cup
                 {[chat |-> c, n |-> started[c] + 1, at |-> tickerC[1],
                   type |-> userPreferences[c].ReminderType,
                   pc |-> "summary", out |-> Out("", <<>>),
                   pref |-> userPreferences[c]] : c \in due}
          /\ started' = [c \in Chats |-> IF c \in due THEN started[c] + 1 ELSE started[c]]
    /\ evaluated' = tickerC[1]
    /\ tickerC' = <<>>
    /\ UNCHANGED <<ledgerVars, clockVars, prefSheet, userPreferences, mainPc, loopPc, sigPc,
                   tickerRunning, nextTick, sent, crashed>>

\* sendReminder, first part: the summary is read from the backend; an error
\* ends the goroutine, a panic ends the process
DispatchSummary(u, failed) ==
    /\ ~crashed /\ u \in units /\ u.pc = "summary"
    /\ \E r \in {ReminderSummary(u.type, sheet, now, tz, failed)} :
          /\ crashed' = r.panic
          /\ units' = IF r.panic THEN units
                      ELSE IF r.err THEN units \ {u}
                      ELSE (units \ {u}) \cup {[u EXCEPT !.pc = "send", !.out = r.out]}
    /\ UNCHANGED <<ledgerVars, clockVars, prefSheet, userPreferences, mainPc, loopPc, sigPc,
                   tickerRunning, nextTick, tickerC, started, sent, evaluated>>

\* sendReminder, second part: bot.Send returns, delivered or not, and the
\* chat's LastReminder becomes time.Now()
DispatchSend(u, delivered) ==
    /\ ~crashed /\ u \in units /\ u.pc = "send"
    /\ sent' = [sent EXCEPT ![u.chat] = IF delivered THEN @ + 1 ELSE @]
    /\ \E pref \in {[userPreferences[u.chat] EXCEPT !.LastReminder = now]} :
          /\ userPreferences' = MapSet(userPreferences, u.chat, pref)
          /\ units' = (units \ {u}) \cup {[u EXCEPT !.pc = "save", !.pref = pref]}
    /\ UNCHANGED <<ledgerVars, clockVars, prefSheet, mainPc, loopPc, sigPc, tickerRunning,
                   nextTick, tickerC, started, evaluated, crashed>>

\* sendReminder, last part: authorize and saveUserPreference, errors dropped
DispatchSave(u, failed) ==
    /\ ~crashed /\ u \in units /\ u.pc = "save"
    /\ prefSheet' = saveUserPreference(prefSheet, u.pref, tz, failed).sheet
    /\ units' = units \ {u}
    /\ UNCHANGED <<ledgerVars, clockVars, userPreferences, mainPc, loopPc, sigPc, tickerRunning,
                   nextTick, tickerC, started, sent, evaluated, crashed>>

\* the interrupt signal arrives: the signal goroutine goes on to done <- true
Signal ==
    /\ ~crashed /\ sigPc = "waiting"
    /\ sigPc' = "sending"
    /\ UNCHANGED <<ledgerVars, clockVars, prefSheet, userPreferences, mainPc, loopPc,
                   tickerRunning, nextTick, tickerC, units, started, sent, evaluated, crashed>>

\* (mutant) case <-done leaves the select, not the loop
LoopDone_KeepsLooping ==
    /\ ~crashed /\ loopPc = "select" /\ sigPc = "sending"
    /\ sigPc' = "finished"
    /\ UNCHANGED <<ledgerVars, clockVars, prefSheet, userPreferences, mainPc, loopPc,
                   tickerRunning, nextTick, tickerC, units, started, sent, evaluated, crashed>>

\* case <-done: the loop returns; the signal goroutine closes done and ends
LoopDone ==
    /\ ~crashed /\ loopPc = "select" /\ sigPc = "sending"
    /\ loopPc' = "exited"
    /\ sigPc' = "finished"
    /\ UNCHANGED <<ledgerVars, clockVars, prefSheet, userPreferences, mainPc, tickerRunning,
                   nextTick, tickerC, units, started, sent, evaluated, crashed>>

\* time passes, but not past a tick the running ticker has still to give
Advance ==
    /\ ~crashed
    /\ Elapsed(now) < MaxElapsed
    /\ ~(tickerRunning /\ nextTick <= now)
    /\ now' = now + 1
    /\ UNCHANGED <<ledgerVars, tz, schedVars>>

NextSched ==
    \/ StartScheduler \/ Return
    \/ TickerFire \/ LoopTick \/ LoopDone \/ Signal
    \/ \E u \in units, failed \in BOOLEAN : DispatchSummary(u, failed)
    \/ \E u \in units, delivered \in BOOLEAN : DispatchSend(u, delivered)
    \/ \E u \in units, failed \in BOOLEAN : DispatchSave(u, failed)
    \/ Advance

SpecSched == InitSched /\ [][NextSched]_vars

-----------------------------------------------------------------------------
(* Claims about the scheduler *)

\* a dispatch of a daily reminder, started at a tick at local hour 20
\* that lies 25 hours after the chat's last reminder, and not yet recorded
DailyAfter25Hours(u) ==
    /\ u.type = Daily
    /\ u.pc # "save"
    /\ Hour(u.at, tz) = 20
    /\ u.at - u.pref.LastReminder = 25 * HourUnits

\* C7: for a daily preference last reminded 25 hours before a tick at
\* local hour 20 there is exactly one dispatch: lastReminderSentAt becomes
\* the evaluation time of that tick, and no further dispatch is started
\* for the chat when it is evaluated again.
C7_DailyDispatchedOnce ==
    [][\A u \in units :
          DailyAfter25Hours(u)
          => /\ started'[u.chat] = started[u.chat]
             /\ userPreferences'[u.chat] # userPreferences[u.chat]
                => userPreferences'[u.chat].LastReminder = u.at]_vars

\* C8: no dispatch is started for a chat while an earlier dispatch for
\* the chat has not completed and recorded lastReminderSentAt.
C8_OneDispatchPerChat ==
    \A u \in units, v \in units : u.chat = v.chat => u = v

\* C9: after startReminderScheduler has returned and until shutdown is
\* signalled, the ticker keeps giving ticks to the tick loop.
C9_TicksAfterReturn ==
    (mainPc = "returned" /\ loopPc = "select" /\ sigPc = "waiting") => tickerRunning

-----------------------------------------------------------------------------
(* The store: appends, reads by position and removals of one chat, with    *)
(* entries whose note is empty among the inputs                             *)

\* "5k,tea,": three fields, the note empty
TxtNoNote == <<"5", "k", ",", "t", "e", "a", ",">>

StoreTexts == {TxtEntryA, TxtNoNote, TxtLast, TxtRemove}

\* a three-field message is appended (appendData) and the row is read back
\* at the position the append gave it (getEntryByNumber)
appendThenGet(text, fail) ==
    /\ fail \in 0..2
    /\ \E pos \in {Len(Column(sheet, 1)) + 1} :
       \E a \in {appendData(sheet, now, tz, normalizeNominal(Field(text, 1)),
                            Field(text, 2), Field(text, 3), fail)} :
       \E g \in {getEntryByNumber(a.sheet, pos, FALSE)} :
          /\ Len(a.sheet) <= MaxRows
          /\ sheet' = a.sheet
          /\ reply' = [chat |-> 101,
                       kind |-> IF a.err THEN "AppendFailed"
                                ELSE IF g.err THEN "ReadBackFailed" ELSE "ReadBack",
                       body |-> g.out.body]
    /\ update' = [chat |-> 101, text |-> text, fail |-> fail]
    /\ UNCHANGED <<editingState, session, prior, clockVars, schedVars>>

NextStore ==
    \/ \E text \in StoreTexts, fail \in 0..3 : handleUpdate(101, text, fail)
    \/ \E text \in {TxtEntryA, TxtNoNote}, fail \in 0..2 : appendThenGet(text, fail)

SpecStore == Init /\ [][NextStore]_vars

\* C11: after a successful append of (amount, category, note), reading the
\* row at the position the append assigned yields that amount, category and
\* note.
C11_AppendThenReadBack ==
    [][reply'.kind \in {"ReadBack", "ReadBackFailed"}
          => /\ reply'.kind = "ReadBack"
             /\ reply'.body[2] = Itoa(normalizeNominal(Field(update'.text, 1)))
             /\ reply'.body[3] = Field(update'.text, 2)
             /\ reply'.body[4] = Field(update'.text, 3)]_vars

\* the rows of the sheet that hold an entry
EntryRows(sh) == {i \in 1..Len(sh) : sh[i] # <<>> /\ sh[i] # Header}

\* C12: removing the last row of a ledger that holds no entry fails with an
\* error and changes nothing; on a ledger that holds an entry the
\* empty-ledger error is not reported.
C12_RemoveOnEmptyLedger ==
    [][(update'.text = TxtRemove /\ update'.fail = 0)
          => /\ EntryRows(sheet) = {} => (reply'.kind = "RemoveFailed" /\ sheet' = sheet)
             /\ EntryRows(sheet) # {} => reply'.kind # "RemoveFailed"]_vars

\* C13: a successful /remove clears exactly the row at the highest position:
\* every other row is unchanged, the row count drops by one, and the reply
\* shows the date, amount, category and note of the row that was removed.
C13_RemoveClearsLastRow ==
    [][reply'.kind = "Removed"
          => /\ Len(Values(sheet')) = Len(Values(sheet)) - 1
             /\ \A i \in 1..(Len(sheet) - 1) : sheet'[i] = sheet[i]
             /\ Len(reply'.body) = 6
             /\ \A i \in 2..5 : reply'.body[i + 1] = sheet[Len(sheet)][i]]_vars

\* C14: a three-field message of a chat in Idle whose append fails at the
\* backend (the read of the row count or the write of the row) leaves the
\* ledger as it was, gets the failure reply without a total, and leaves the
\* chat in Idle.
C14_FailedAppendKeepsLedger ==
    [][\A c \in Chats :
          (/\ update'.chat = c
           /\ session[c].awaiting = 0
           /\ c \notin DOMAIN editingState
           /\ ThreeFields(update'.text)
           /\ WriteFails(update'.fail))
          => (/\ sheet' = sheet
              /\ reply' = [chat |-> c, kind |-> "AppendFailed", body |-> <<>>]
              /\ c \notin DOMAIN editingState'
              /\ session'[c].awaiting = 0)]_vars

\* C14 witness: the append of a three-field message of a chat in Idle has
\* failed on a ledger that holds an entry.
C14_Witness ==
    /\ prior.awaiting = 0
    /\ ThreeFields(update.text)
    /\ WriteFails(update.fail)
    /\ reply.kind = "AppendFailed"
    /\ EntryRows(sheet) # {}

\* the sum of the amounts of the rows of the ledger
RECURSIVE AmountSum(_)
AmountSum(sh) ==
    IF sh = <<>> THEN 0
    ELSE (IF Len(sh[1]) >= 3 /\ ~Atoi(sh[1][3]).err THEN Atoi(sh[1][3]).val ELSE 0)
             + AmountSum(Tail(sh))

\* C15: a three-field message of a chat in Idle whose append succeeds adds
\* exactly one row, holding the parsed amount, the category and the note,
\* and the total in the reply is the sum of the amounts of all rows of the
\* ledger, the new one included.
C15_AppendReportsTotal ==
    [][\A c \in Chats :
          (/\ update'.chat = c
           /\ session[c].awaiting = 0
           /\ c \notin DOMAIN editingState
           /\ ThreeFields(update'.text)
           /\ ~WriteFails(update'.fail))
          => (/\ sheet' = Append(sheet, RowOf(update'.text, Len(sheet) + 1))
              /\ reply'.kind = "Added"
              /\ reply'.body[4] = Itoa(AmountSum(sheet')))]_vars

(***************************************************************************)
(* The period summaries as functions of now, of the zone of the process    *)
(* and of the date of an entry: the ledger holds the header and one entry, *)
(* and the chat asks for the weekly or the monthly summary.                *)
(***************************************************************************)

\* the zones the process runs in: UTC, UTC+7, UTC-5
PeriodZones == {0, 7, 0 - 5}

\* the local dates of now: the first and the last day of a month of 28, of
\* 29, of 30 and of 31 days, and the seven days of a week of June 2025
PeriodDays ==
    {DaysFromCivil(2025, 2, 1), DaysFromCivil(2025, 2, 28),
     DaysFromCivil(2024, 2, 1), DaysFromCivil(2024, 2, 29),
     DaysFromCivil(2025, 4, 1), DaysFromCivil(2025, 4, 30),
     DaysFromCivil(2025, 1, 1), DaysFromCivil(2025, 1, 31)}
        \cup {DaysFromCivil(2025, 6, 8) + i : i \in 0..6}

\* the local times of day of now: 00:00, 12:00, 23:59
PeriodTimes == {0, 12 * HourUnits, 23 * HourUnits + 59 * MinuteUnits}

\* the day number of the Sunday on or before t, of the first and of the last
\* day of t's month, in the zone
SundayOf(t, zone) == LocalDay(t, zone) - Weekday(t, zone)
FirstOfMonth(t, zone) ==
    LET c == CivilFromDays(LocalDay(t, zone)) IN DaysFromCivil(c[1], c[2], 1)
LastOfMonth(t, zone) ==
    LET c == CivilFromDays(LocalDay(t, zone))
    IN  DaysFromCivil(c[1], c[2], 1) + DaysInMonth(c[1], c[2]) - 1

\* the dates of the entry: the days at and next to the ends of now's week
\* and of now's month
ProbeDays(t, zone) ==
    {SundayOf(t, zone) - 1, SundayOf(t, zone), SundayOf(t, zone) + 6, SundayOf(t, zone) + 7,
     FirstOfMonth(t, zone) - 1, FirstOfMonth(t, zone),
     LastOfMonth(t, zone), LastOfMonth(t, zone) + 1}

\* the row appendData wrote on that day
ProbeRow(day) == EntryRow(2, day * DayUnits, 0, 10000, <<"F", "o", "o", "d">>, <<"a">>)

\* the day the entry of the ledger is dated
ProbeDay(sh) == ParseDate(sh[2][2]).t \div DayUnits

InitPeriod ==
    /\ tz \in PeriodZones
    /\ \E d \in PeriodDays, tod \in PeriodTimes : now = d * DayUnits + tod - tz * HourUnits
    /\ \E p \in ProbeDays(now, tz) : sheet = <<Header, ProbeRow(p)>>
    /\ editingState = <<>>
    /\ reply = NoReply
    /\ update = NoUpdate
    /\ session = [c \in Chats |-> Idle]
    /\ prior = Idle
    /\ SchedulerIdle

NextPeriod ==
    \E text \in {TxtWeekly, TxtMonthly}, fail \in 0..1 : handleUpdate(101, text, fail)

SpecPeriod == InitPeriod /\ [][NextPeriod]_vars

\* C16: for every now, the weekly summary includes an entry dated the
\* Sunday on or before now (weekStart) and one dated weekStart + 6 days, and
\* excludes an entry dated weekStart - 1 day and one dated weekStart + 7 days.
C16_WeeklyWindow ==
    [][(update'.text = TxtWeekly /\ update'.fail = 0)
          => /\ ProbeDay(sheet) \in {SundayOf(now, tz), SundayOf(now, tz) + 6}
                   => reply'.kind = "Weekly"
             /\ ProbeDay(sheet) \in {SundayOf(now, tz) - 1, SundayOf(now, tz) + 7}
                   => reply'.kind = "WeeklyEmpty"]_vars

\* C17: for every now, the monthly summary counts an entry exactly when its
\* date lies in the calendar month of now: the first and the last day of
\* the month are counted, the last day of the month before and the first
\* day of the month after are not, in months of 28, 29, 30 and 31 days.
C17_MonthlyWindow ==
    [][(update'.text = TxtMonthly /\ update'.fail = 0)
          => (reply'.kind = "Monthly"
                 <=> ProbeDay(sheet) \in FirstOfMonth(now, tz)..LastOfMonth(now, tz))]_vars

(***************************************************************************)
(* The tick loop as a function of the tick instant, of the zone and of the *)
(* preferences: the loop is selecting, ticker.C holds one tick, and no     *)
(* dispatch is in flight.                                                  *)
(***************************************************************************)

\* the zones the process runs in: UTC, UTC+7
TickZones == {0, 7}

\* the local dates of the tick: Sunday 2025-06-01, Saturday 2025-06-07,
\* Sunday 2025-06-08, Monday 2025-06-30, Tuesday 2025-07-01
TickDays ==
    {DaysFromCivil(2025, 6, 1), DaysFromCivil(2025, 6, 7), DaysFromCivil(2025, 6, 8),
     DaysFromCivil(2025, 6, 30), DaysFromCivil(2025, 7, 1)}

\* the local times of day of the tick: 19:59, 20:00, 20:59, 21:00
TickTimes ==
    {19 * HourUnits + 59 * MinuteUnits, 20 * HourUnits,
     20 * HourUnits + 59 * MinuteUnits, 21 * HourUnits}

\* the preferences of a chat at the tick t: a reminder type, last reminded
\* 30 days, 7 days or 24 hours before t, or one unit off; or no reminder
TickPrefs(chatID, t) ==
    {[ChatID |-> chatID, ReminderType |-> type, LastReminder |-> last] :
         type \in {Daily, Weekly, Monthly},
         last \in {t - 30 * 24 * HourUnits - 1, t - 30 * 24 * HourUnits,
                   t - 7 * 24 * HourUnits, t - 7 * 24 * HourUnits + 1,
                   t - 24 * HourUnits - 1, t - 24 * HourUnits, t - 24 * HourUnits + 1}}
        \cup {[ChatID |-> chatID, ReminderType |-> None, LastReminder |-> t - 30 * 24 * HourUnits]}

InitTick ==
    /\ sheet = <<Header>>
    /\ editingState = <<>>
    /\ reply = NoReply
    /\ update = NoUpdate
    /\ session = [c \in Chats |-> Idle]
    /\ prior = Idle
    /\ tz \in TickZones
    /\ \E d \in TickDays, tod \in TickTimes : now = d * DayUnits + tod - tz * HourUnits
    /\ prefSheet = <<PrefHeader>>
    /\ \E p \in TickPrefs(101, now) :
          \/ userPreferences = MapSet(<<>>, 101, p)
          \/ \E q \in {[ChatID |-> 102, ReminderType |-> Daily,
                        LastReminder |-> now - 24 * HourUnits],
                       [ChatID |-> 102, ReminderType |-> Daily, LastReminder |-> now]} :
                userPreferences = MapSet(MapSet(<<>>, 101, p), 102, q)
    /\ mainPc = "started"
    /\ loopPc = "select"
    /\ sigPc = "waiting"
    /\ tickerRunning = TRUE
    /\ nextTick = now + MinuteUnits
    /\ tickerC = <<now>>
    /\ units = {}
    /\ started = [c \in Chats |-> 0]
    /\ sent = [c \in Chats |-> 0]
    /\ evaluated = 0
    /\ crashed = FALSE

NextTick == LoopTick

SpecTick == InitTick /\ [][NextTick]_vars

\* the loop takes the tick of ticker.C in this step
TickTaken == tickerC # <<>> /\ tickerC' = <<>>

\* a dispatch is started for the chat in this step; none is
Dispatched(c) ==
    /\ started'[c] = started[c] + 1
    /\ \E u \in units' \ units : u.chat = c /\ u.at = tickerC[1]
NotDispatched(c) ==
    /\ started'[c] = started[c]
    /\ ~\E u \in units' \ units : u.chat = c

\* C18: on a tick, a dispatch is started for a chat whose reminder type is
\* Daily exactly when the local hour of the tick is 20 and at least 24 hours
\* have passed since the chat's LastReminder; on every other tick none is.
C18_DailyDue ==
    [][TickTaken
          => \A c \in DOMAIN userPreferences :
                userPreferences[c].ReminderType = Daily
                => IF /\ Hour(tickerC[1], tz) = 20
                      /\ tickerC[1] - userPreferences[c].LastReminder >= 24 * HourUnits
                   THEN Dispatched(c) ELSE NotDispatched(c)]_vars

\* C18 witness: a dispatch has been started for a daily chat at a tick at
\* local hour 20, exactly 24 hours after its last reminder.
C18_Witness ==
    /\ tickerC = <<>>
    /\ \E u \in units :
          /\ u.type = Daily
          /\ Hour(u.at, tz) = 20
          /\ u.at - u.pref.LastReminder = 24 * HourUnits

\* C19: on a tick, a dispatch is started for a chat whose reminder type is
\* Weekly exactly when the tick's weekday is the last day of the week (the
\* week begins on Sunday, so its last day is Saturday), the local hour is
\* 20 and at least 7 x 24 hours have passed since the chat's LastReminder.
C19_WeeklyDue ==
    [][TickTaken
          => \A c \in DOMAIN userPreferences :
                userPreferences[c].ReminderType = Weekly
                => IF /\ Weekday(tickerC[1], tz) = 6
                      /\ Hour(tickerC[1], tz) = 20
                      /\ tickerC[1] - userPreferences[c].LastReminder >= 7 * 24 * HourUnits
                   THEN Dispatched(c) ELSE NotDispatched(c)]_vars

\* C20: on a tick, a dispatch is started for a chat whose reminder type is
\* Monthly exactly when the tick's local day of the month is 1, the local
\* hour is 20 and at least 30 x 24 hours have passed since the chat's
\* LastReminder.
C20_MonthlyDue ==
    [][TickTaken
          => \A c \in DOMAIN userPreferences :
                userPreferences[c].ReminderType = Monthly
                => IF /\ Day(tickerC[1], tz) = 1
                      /\ Hour(tickerC[1], tz) = 20
                      /\ tickerC[1] - userPreferences[c].LastReminder >= 30 * 24 * HourUnits
                   THEN Dispatched(c) ELSE NotDispatched(c)]_vars

\* C20 witness: a dispatch has been started for a monthly chat at a tick at
\* local hour 20 of the first day of a month, exactly 30 days after its
\* last reminder.
C20_Witness ==
    /\ tickerC = <<>>
    /\ \E u \in units :
          /\ u.type = Monthly
          /\ Day(u.at, tz) = 1
          /\ Hour(u.at, tz) = 20
          /\ u.at - u.pref.LastReminder = 30 * 24 * HourUnits

(***************************************************************************)
(* Reminder selections: the callback of a choice button as an inbound      *)
(* update, and handleCallbackQuery as the function the code defines.       *)
(***************************************************************************)

ReminderPrefix == <<"r", "e", "m", "i", "n", "d", "e", "r", "_">>

\* the callback data of the four choice buttons of "/reminder"
Tokens == {ReminderPrefix \o type : type \in {Daily, Weekly, Monthly, None}}

TxtReminder == <<"/", "r", "e", "m", "i", "n", "d", "e", "r">>

\* what the handling of one callback leaves behind
PrefEffect(prefs, ps, out) == [userPreferences |-> prefs, prefSheet |-> ps, reply |-> out]

\* handleCallbackQuery: the preference is put into the table, then saved;
\* the reply is the failure text when the save fails, else the confirmation
\* of the type (no text for a type the switch does not name)
handleCallbackQuery(prefs, ps, t, zone, chatID, data, failed) ==
    IF HasPrefix(data, ReminderPrefix)
    THEN LET reminderType == TrimPrefix(data, ReminderPrefix)
             pref == [ChatID |-> chatID, ReminderType |-> reminderType, LastReminder |-> t]
             saved == saveUserPreference(ps, pref, zone, failed)
         IN  IF saved.err
             THEN PrefEffect(MapSet(prefs, chatID, pref), saved.sheet,
                             Out("ReminderSaveFailed", <<>>))
             ELSE PrefEffect(MapSet(prefs, chatID, pref), saved.sheet,
                             Out("ReminderSet",
                                 IF reminderType \in {Daily, Weekly, Monthly, None}
                                 THEN <<reminderType>> ELSE <<>>))
    ELSE PrefEffect(prefs, ps, Out("", <<>>))

\* handleUpdate for an update that carries a callback query and no message:
\* update.Message is nil and the function returns
HandleCallbackUpdate(prefs, ps, t, zone, chatID, data) ==
    PrefEffect(prefs, ps, Out("", <<>>))

\* the Preferences sheets the process starts with: none, the header only,
\* or chat 101 reminded daily, last on 2025-02-27
StartPrefSheets ==
    {<<>>, <<PrefHeader>>,
     <<PrefHeader, PrefRow(101, Daily, DaysFromCivil(2025, 2, 27))>>}

InitPrefs ==
    /\ sheet = <<Header>>
    /\ editingState = <<>>
    /\ reply = NoReply
    /\ update = NoUpdate
    /\ session = [c \in Chats |-> Idle]
    /\ prior = Idle
    /\ now = StartNow
    /\ tz \in {0, 7}
    /\ prefSheet \in StartPrefSheets
    /\ userPreferences = loadUserPreferences(prefSheet)
    /\ mainPc = "returned"
    /\ loopPc = "select"
    /\ sigPc = "waiting"
    /\ tickerRunning = FALSE
    /\ nextTick = StartNow + MinuteUnits
    /\ tickerC = <<>>
    /\ units = {}
    /\ started = [c \in Chats |-> 0]
    /\ sent = [c \in Chats |-> 0]
    /\ evaluated = 0
    /\ crashed = FALSE

\* an inbound update carrying the callback of a choice button
callbackUpdate(chatId, data) ==
    /\ \E r \in {HandleCallbackUpdate(userPreferences, prefSheet, now, tz, chatId, data)} :
          /\ userPreferences' = r.userPreferences
          /\ prefSheet' = r.prefSheet
          /\ reply' = [chat |-> chatId, kind |-> r.reply.kind, body |-> r.reply.body]
    /\ update' = [chat |-> chatId, text |-> <<>>, fail |-> 0, data |-> data,
                  inbound |-> TRUE]
    /\ UNCHANGED <<sheet, editingState, session, prior, clockVars, mainPc, loopPc, sigPc,
                   tickerRunning, nextTick, tickerC, units, started, sent, evaluated, crashed>>

\* handleCallbackQuery applied to the callback of a choice button
callbackQuery(chatId, data, failed) ==
    /\ \E r \in {handleCallbackQuery(userPreferences, prefSheet, now, tz, chatId, data, failed)} :
          /\ userPreferences' = r.userPreferences
          /\ prefSheet' = r.prefSheet
          /\ reply' = [chat |-> chatId, kind |-> r.reply.kind, body |-> r.reply.body]
    /\ update' = [chat |-> chatId, text |-> <<>>, fail |-> IF failed THEN 1 ELSE 0,
                  data |-> data, inbound |-> FALSE]
    /\ UNCHANGED <<sheet, editingState, session, prior, clockVars, mainPc, loopPc, sigPc,
                   tickerRunning, nextTick, tickerC, units, started, sent, evaluated, crashed>>

NextPrefs ==
    \/ \E c \in Chats : handleUpdate(c, TxtReminder, 0)
    \/ \E c \in Chats, data \in Tokens : callbackUpdate(c, data)
    \/ \E c \in Chats, data \in Tokens, failed \in BOOLEAN : callbackQuery(c, data, failed)

SpecPrefs == InitPrefs /\ [][NextPrefs]_vars

\* the step handles a callback; it arrived as an inbound update
IsCallback(u) == "data" \in DOMAIN u
IsInbound(u) == IsCallback(u) /\ u.inbound

\* C21: when the callback of a choice button (reminder_daily,
\* reminder_weekly, reminder_monthly, reminder_none) arrives as an inbound
\* update, the chat's preference becomes that period with LastReminder =
\* now and the confirmation of that period is sent.
C21_SelectionSetsPreference ==
    [][IsInbound(update')
          => \E type \in {Daily, Weekly, Monthly, None} :
                /\ update'.data = ReminderPrefix \o type
                /\ update'.chat \in DOMAIN userPreferences'
                /\ userPreferences'[update'.chat] =
                       [ChatID |-> update'.chat, ReminderType |-> type, LastReminder |-> now]
                /\ reply' = [chat |-> update'.chat, kind |-> "ReminderSet",
                             body |-> <<type>>]]_vars

\* the scheduler with the fairness the Go runtime gives the tick loop: a
\* select whose done case stays ready takes it
SpecSchedFair == InitSched /\ [][NextSched]_vars /\ WF_vars(LoopDone)

\* C22: once the interrupt signal has been handed to the tick loop (the send
\* on done has returned), no further tick is evaluated and no new dispatch
\* is started; and the hand-over always completes: the signal goroutine
\* does not stay blocked on the send on done for ever.
C22_ShutdownStopsTicks ==
    /\ [][sigPc = "finished"
             => (evaluated' = evaluated /\ started' = started /\ loopPc' = "exited")]_vars
    /\ (sigPc = "sending") ~> (sigPc = "finished" \/ crashed)

\* C22 witness: the signal has been handed over while a tick was waiting in
\* ticker.C, and the tick is still there.
C22_Witness ==
    /\ sigPc = "finished"
    /\ loopPc = "exited"
    /\ tickerC # <<>>

(***************************************************************************)
(* The accesses to the preference table, one step each: sendReminder       *)
(* reads the chat's preference (pref := userPreferences[chatID]), sets     *)
(* LastReminder and writes it back (userPreferences[chatID] = pref), with  *)
(* no lock; the tick loop ranges over the table at every tick.             *)
(***************************************************************************)

\* bot.Send returns, delivered or not
DispatchSent(u, delivered) ==
    /\ ~crashed /\ u \in units /\ u.pc = "send"
    /\ sent' = [sent EXCEPT ![u.chat] = IF delivered THEN @ + 1 ELSE @]
    /\ units' = (units \ {u}) \cup {[u EXCEPT !.pc = "read"]}
    /\ UNCHANGED <<ledgerVars, clockVars, prefSheet, userPreferences, mainPc, loopPc, sigPc,
                   tickerRunning, nextTick, tickerC, started, evaluated, crashed>>

\* pref := userPreferences[chatID]; pref.LastReminder = time.Now()
DispatchRead(u) ==
    /\ ~crashed /\ u \in units /\ u.pc = "read"
    /\ units' = (units \ {u}) \cup
                    {[u EXCEPT !.pc = "write",
                               !.pref = [userPreferences[u.chat] EXCEPT !.LastReminder = now]]}
    /\ UNCHANGED <<ledgerVars, clockVars, prefSheet, userPreferences, mainPc, loopPc, sigPc,
                   tickerRunning, nextTick, tickerC, started, sent, evaluated, crashed>>

\* userPreferences[chatID] = pref; a map write that runs into another
\* goroutine's write may end the process (fatal error: concurrent map
\* writes)
DispatchWrite(u, fatal) ==
    /\ ~crashed /\ u \in units /\ u.pc = "write"
    /\ fatal => \E v \in units \ {u} : v.pc = "write"
    /\ crashed' = fatal
    /\ userPreferences' = IF fatal THEN userPreferences
                          ELSE MapSet(userPreferences, u.chat, u.pref)
    /\ units' = IF fatal THEN units ELSE (units \ {u}) \cup {[u EXCEPT !.pc = "save"]}
    /\ UNCHANGED <<ledgerVars, clockVars, prefSheet, mainPc, loopPc, sigPc, tickerRunning,
                   nextTick, tickerC, started, sent, evaluated>>

NextRace ==
    \/ StartScheduler \/ Return
    \/ TickerFire \/ LoopTick
    \/ \E u \in units : DispatchSummary(u, FALSE)
    \/ \E u \in units : DispatchSent(u, TRUE)
    \/ \E u \in units : DispatchRead(u)
    \/ \E u \in units, fatal \in BOOLEAN : DispatchWrite(u, fatal)
    \/ \E u \in units : DispatchSave(u, FALSE)
    \/ Advance

SpecRace == InitSched /\ [][NextRace]_vars

\* the dispatch units that are inside their read-modify-write of the
\* preference table
Writers == {u \in units : u.pc = "write"}

\* C23: every read-modify-write of the preference table is mutually
\* exclusive with every other access to it: no two dispatch units are
\* inside their read-modify-write at the same time, and the tick loop does
\* not range over the table while a dispatch unit is inside its own. (The
\* edit-session table is only accessed by the router.)
C23_TableAccessExclusive ==
    /\ [](Cardinality(Writers) <= 1)
    /\ [][TickTaken => Writers = {}]_vars

(***************************************************************************)
(* normalizeNominal as a function of the nominal token: the token is drawn *)
(* from the short texts over the characters the function looks at, and     *)
(* from the tokens the specification names.                                *)
(***************************************************************************)

\* the length of the tokens that are enumerated
MaxTokenLen == 3

TokenChars == {"1", "5", "j", "t", "r", "b", "k", "K", "a", ".", " ", "-"}

\* "10rb", "1jt", "100k", "abc", "1.5jt", "15jt", "-5rb", "1rb2"
NamedTokens ==
    {<<"1", "0", "r", "b">>, <<"1", "j", "t">>, <<"1", "0", "0", "k">>, <<"a", "b", "c">>,
     <<"1", ".", "5", "j", "t">>, <<"1", "5", "j", "t">>, <<"-", "5", "r", "b">>,
     <<"1", "r", "b", "2">>}

NominalTokens ==
    UNION {[1..n -> TokenChars] : n \in 0..MaxTokenLen} \cup NamedTokens

InitParse ==
    /\ sheet = <<Header>>
    /\ editingState = <<>>
    /\ reply = NoReply
    /\ \E token \in NominalTokens : update = [chat |-> 101, text |-> token, fail |-> 0]
    /\ session = [c \in Chats |-> Idle]
    /\ prior = Idle
    /\ now = StartNow
    /\ tz = 0
    /\ SchedulerIdle

\* normalizedNominal := normalizeNominal(nominalStr)
parse ==
    /\ reply = NoReply
    /\ reply' = [chat |-> update.chat, kind |-> "Parsed",
                 body |-> <<Itoa(normalizeNominal(update.text))>>]
    /\ UNCHANGED <<sheet, editingState, update, session, prior, clockVars, schedVars>>

NextParse == parse

SpecParse == InitParse /\ [][NextParse]_vars

\* the token lower-cased, without its dots and spaces
RECURSIVE Cleaned(_)
Cleaned(s) ==
    IF s = <<>> THEN <<>>
    ELSE IF s[1] \in {".", " "} THEN Cleaned(Tail(s))
    ELSE ToLower(<<s[1]>>) \o Cleaned(Tail(s))

HasSuffix(s, suffix) ==
    Len(s) >= Len(suffix) /\ SubSeq(s, Len(s) - Len(suffix) + 1, Len(s)) = suffix

\* the multiplier suffix of a cleaned token, in the order "jt", "rb", "k",
\* what stands before it, and the suffix's multiplier
Suffix(s) ==
    IF HasSuffix(s, <<"j", "t">>) THEN <<"j", "t">>
    ELSE IF HasSuffix(s, <<"r", "b">>) THEN <<"r", "b">>
    ELSE IF HasSuffix(s, <<"k">>) THEN <<"k">>
    ELSE <<>>
Stem(s) == SubSeq(s, 1, Len(s) - Len(Suffix(s)))
Multiplier(s) ==
    IF Suffix(s) = <<"j", "t">> THEN 1000000 ELSE IF Suffix(s) = <<>> THEN 1 ELSE 1000

C25_DotsRemovedFirst ==
    [][reply'.kind = "Parsed"
          => /\ reply'.body[1] = Itoa(normalizeNominal(Cleaned(update.text)))
             /\ update.text \in {<<"1", ".", "5", "j", "t">>, <<"1", "5", "j", "t">>}
                   => reply'.body[1] = <<"1", "5", "0", "0", "0", "0", "0", "0">>]_vars

\* C25 witness: "1.5jt" has been parsed.
C25_Witness ==
    /\ reply.kind = "Parsed"
    /\ update.text = <<"1", ".", "5", "j", "t">>
    /\ Cleaned(update.text) # update.text

(***************************************************************************)
(* Appends of one chat whose nominal tokens carry a sign                   *)
(***************************************************************************)

\* "-5rb,tea,x": the nominal has a leading minus sign
TxtNegative == <<"-", "5", "r", "b", ",", "t", "e", "a", ",", "x">>

NextAmounts ==
    \E text \in {TxtEntryA, TxtEntryB, TxtNegative, TxtRemove}, fail \in 0..3 :
        handleUpdate(101, text, fail)

SpecAmounts == Init /\ [][NextAmounts]_vars

\* C26: every amount stored in the ledger by an append or an edit commit
\* is a non-negative integer, whatever nominal token the user typed.
C26_AmountsNonNegative ==
    \A i \in EntryRows(sheet) : ~Atoi(sheet[i][3]).err /\ Atoi(sheet[i][3]).val >= 0

\* C27: the scheduler changes a chat's LastReminder only in a dispatch
\* whose notification has been sent successfully: when the summary or the
\* send fails, LastReminder keeps its value.
C27_RecordedOnlyWhenSent ==
    [][\A c \in DOMAIN userPreferences :
          userPreferences'[c].LastReminder # userPreferences[c].LastReminder
          => sent'[c] = sent[c] + 1]_vars

\* C28: nothing that inbound messages, ticks and backend responses can
\* bring about ends the process: the daily, weekly or monthly summary over
\* a ledger sheet with no row gives a no-entries result or an error value,
\* never a panic.
C28_NoPanic == ~crashed

\* C29: when saving a reminder selection to the backend fails, the chat's
\* preference in the table is what it was before the selection, and the
\* chat gets the failure reply, not a confirmation.
C29_FailedSaveKeepsPreference ==
    [][(IsCallback(update') /\ ~update'.inbound /\ update'.fail = 1)
          => /\ userPreferences' = userPreferences
             /\ prefSheet' = prefSheet
             /\ reply' = [chat |-> update'.chat, kind |-> "ReminderSaveFailed",
                          body |-> <<>>]]_vars

\* C30: an edit commit only overwrites a position that exists in the
\* ledger at commit time: when the row a chat's edit session names has
\* been removed since the chat's "/edit N", the chat's replacement message
\* writes no row at N and the number of occupied rows does not grow.
C30_CommitNeedsExistingRow ==
    [][\A c \in Chats :
          (/\ update'.chat = c
           /\ session[c].awaiting # 0
           /\ ThreeFields(update'.text)
           /\ RowValues(sheet, session[c].awaiting) = <<>>)
          => (/\ RowValues(sheet', session[c].awaiting) = <<>>
              /\ Len(Values(sheet')) <= Len(Values(sheet)))]_vars

\* C31: the tick loop never waits for a dispatch: whenever the loop is at
\* its select and a tick is in ticker.C, the tick can be taken, whatever
\* dispatches are in flight; and the tick that is taken starts a dispatch
\* for every chat that is due, also for a chat one of whose dispatches is
\* still in flight.
C31_TickLoopNeverWaits ==
    /\ []((~crashed /\ loopPc = "select" /\ tickerC # <<>>) => ENABLED LoopTick)
    /\ [][TickTaken
             => \A c \in DOMAIN userPreferences :
                   (/\ userPreferences[c].ReminderType # None
                    /\ shouldSend(userPreferences[c], tickerC[1], tz))
                   => Dispatched(c)]_vars

\* C31 witness: a tick has been evaluated, and has started a dispatch for
\* a chat, while a dispatch started by an earlier tick was in flight.
C31_Witness ==
    /\ tickerC = <<>>
    /\ \E u \in units, v \in units : u.at < v.at /\ v.at = evaluated

(***************************************************************************)
(* The saves of the preference storage, one step for each backend call:    *)
(* saveUserPreference reads column A of the Preferences sheet, picks the   *)
(* row, and writes the row with a second call. Its callers are             *)
(* handleCallbackQuery (a reminder selection; in webhook mode every        *)
(* request has its own goroutine) and sendReminder (one goroutine for      *)
(* every dispatch). A chat has at most one save in flight here.            *)
(***************************************************************************)

\* saveUserPreference up to rowNum: the first row of column A that holds
\* the chat, else the row below the last
saveRow(ps, chatID) ==
    LET colA == Column(ps, 1)
        hit == {i \in 1..Len(colA) : colA[i] # <<>> /\ colA[i][1] = Itoa(chatID)}
    IN  IF hit # {} THEN CHOOSE i \in hit : \A j \in hit : i <= j
        ELSE Len(colA) + 1

\* the row saveUserPreference writes
SavedRow(pref, zone) ==
    <<Itoa(pref.ChatID), pref.ReminderType, FormatISO(pref.LastReminder, zone)>>

\* the selections taken here: the daily and the weekly button
SaveTokens == {ReminderPrefix \o type : type \in {Daily, Weekly}}

InitSave ==
    /\ InitPrefs
    /\ tz = 0
    /\ prefSheet # <<>>

\* handleCallbackQuery up to the first backend call of saveUserPreference:
\* the preference is put into the table and column A is read
selectRead(chatId, data, failed) ==
    /\ \A u \in units : u.chat # chatId
    /\ \E pref \in {[ChatID |-> chatId, ReminderType |-> TrimPrefix(data, ReminderPrefix),
                     LastReminder |-> now]} :
          /\ userPreferences' = MapSet(userPreferences, chatId, pref)
          /\ units' = IF failed THEN units
                      ELSE units \cup {[chat |-> chatId, pref |-> pref, origin |-> "select",
                                        rowNum |-> saveRow(prefSheet, chatId),
                                        pc |-> "update"]}
    /\ reply' = IF failed THEN [chat |-> chatId, kind |-> "ReminderSaveFailed", body |-> <<>>]
                ELSE reply
    /\ update' = [chat |-> chatId, text |-> <<>>, fail |-> IF failed THEN 1 ELSE 0,
                  data |-> data, inbound |-> FALSE]
    /\ UNCHANGED <<sheet, editingState, session, prior, clockVars, prefSheet, mainPc, loopPc,
                   sigPc, tickerRunning, nextTick, tickerC, started, sent, evaluated, crashed>>

\* sendReminder after bot.Send, up to the first backend call of
\* saveUserPreference: LastReminder becomes time.Now() and column A is read
persistRead(chatId, failed) ==
    /\ chatId \in DOMAIN userPreferences
    /\ \A u \in units : u.chat # chatId
    /\ \E pref \in {[userPreferences[chatId] EXCEPT !.LastReminder = now]} :
          /\ userPreferences' = MapSet(userPreferences, chatId, pref)
          /\ units' = IF failed THEN units
                      ELSE units \cup {[chat |-> chatId, pref |-> pref, origin |-> "persist",
                                        rowNum |-> saveRow(prefSheet, chatId),
                                        pc |-> "update"]}
    /\ update' = [chat |-> chatId, text |-> <<>>, fail |-> IF failed THEN 1 ELSE 0,
                  data |-> <<>>, inbound |-> FALSE]
    /\ UNCHANGED <<sheet, editingState, reply, session, prior, clockVars, prefSheet, mainPc,
                   loopPc, sigPc, tickerRunning, nextTick, tickerC, started, sent, evaluated,
                   crashed>>

\* the second backend call of saveUserPreference: Values.Update of the row
\* picked; handleCallbackQuery replies, sendReminder drops the error
saveUpdate(u, failed) ==
    /\ u \in units /\ u.pc = "update"
    /\ prefSheet' = IF failed THEN prefSheet
                    ELSE SheetUpdate(prefSheet, u.rowNum, SavedRow(u.pref, tz))
    /\ units' = units \ {u}
    /\ reply' = IF u.origin # "select" THEN reply
                ELSE IF failed
                THEN [chat |-> u.chat, kind |-> "ReminderSaveFailed", body |-> <<>>]
                ELSE [chat |-> u.chat, kind |-> "ReminderSet",
                      body |-> <<u.pref.ReminderType>>]
    /\ update' = [chat |-> u.chat, text |-> <<>>, fail |-> IF failed THEN 2 ELSE 0,
                  data |-> <<>>, inbound |-> FALSE]
    /\ UNCHANGED <<sheet, editingState, session, prior, clockVars, userPreferences, mainPc,
                   loopPc, sigPc, tickerRunning, nextTick, tickerC, started, sent, evaluated,
                   crashed>>

\* the next day begins
NextDay ==
    /\ now = StartNow
    /\ now' = now + DayUnits
    /\ UNCHANGED <<ledgerVars, tz, schedVars>>

NextSave ==
    \/ \E c \in Chats, data \in SaveTokens, failed \in BOOLEAN : selectRead(c, data, failed)
    \/ \E c \in Chats, failed \in BOOLEAN : persistRead(c, failed)
    \/ \E u \in units, failed \in BOOLEAN : saveUpdate(u, failed)
    \/ NextDay

SpecSave == InitSave /\ [][NextSave]_vars

\* the rows of the preference storage that hold the chat
ChatRows(ps, c) == {i \in 1..Len(ps) : Len(ps[i]) >= 1 /\ ps[i][1] = Itoa(c)}

\* C32: after any sequence of reminder selections and scheduler persists,
\* also when the saves of different chats run at the same time, the
\* preference storage holds at most one row for a chat; a save that is
\* written leaves in the chat's row the period and the date it saved, and
\* changes or removes no row of another chat.
C32_OneRowPerChat ==
    /\ [](\A c \in Chats : Cardinality(ChatRows(prefSheet, c)) <= 1)
    /\ [][\A u \in units :
             (u.pc = "update" /\ units' = units \ {u} /\ update'.fail = 0)
             => /\ \E i \in ChatRows(prefSheet', u.chat) :
                      prefSheet'[i] = SavedRow(u.pref, tz)
                /\ \A c \in Chats \ {u.chat} :
                      \A i \in ChatRows(prefSheet, c) :
                         i \in ChatRows(prefSheet', c) /\ prefSheet'[i] = prefSheet[i]]_vars

(***************************************************************************)
(* Webhook mode: the HTTP server runs the handler of every request in its  *)
(* own goroutine, so the backend calls of two handlers interleave. The     *)
(* handler of a three-field message is taken one backend call at a time:   *)
(* appendData's Values.Get, appendData's Values.Append, and getSummary     *)
(* with the reply. A chat has at most one request in flight here.          *)
(***************************************************************************)

\* the three-field messages the requests carry
WebhookTexts == {TxtEntryA, TxtEntryB}

InitWebhook == Init

\* handleUpdate of a three-field message up to the first backend call of
\* appendData: the row count is read and nextRow is computed
appendGet(chatId, text, failed) ==
    /\ \A u \in units : u.chat # chatId
    /\ Len(sheet) + Cardinality(units) < MaxRows
    /\ units' = IF failed THEN units
                ELSE units \cup {[chat |-> chatId, text |-> text, pc |-> "append",
                                  nextRow |-> Len(Column(sheet, 1)) + 1]}
    /\ reply' = IF failed THEN [chat |-> chatId, kind |-> "AppendFailed", body |-> <<>>]
                ELSE reply
    /\ update' = [chat |-> chatId, text |-> text, fail |-> IF failed THEN 1 ELSE 0]
    /\ UNCHANGED <<sheet, editingState, session, prior, clockVars, prefSheet, userPreferences,
                   mainPc, loopPc, sigPc, tickerRunning, nextTick, tickerC, started, sent,
                   evaluated, crashed>>

\* the second backend call of appendData: the row numbered nextRow is
\* appended below the table
appendAppend(u, failed) ==
    /\ u \in units /\ u.pc = "append"
    /\ \E parts \in {Split(u.text, ",")} :
          sheet' = IF failed THEN sheet
                   ELSE SheetAppend(sheet,
                                    EntryRow(u.nextRow, now, tz,
                                             normalizeNominal(TrimSpace(parts[1])),
                                             TrimSpace(parts[2]), TrimSpace(parts[3])))
    /\ units' = IF failed THEN units \ {u}
                ELSE (units \ {u}) \cup {[u EXCEPT !.pc = "summary"]}
    /\ reply' = IF failed THEN [chat |-> u.chat, kind |-> "AppendFailed", body |-> <<>>]
                ELSE reply
    /\ update' = [chat |-> u.chat, text |-> u.text, fail |-> IF failed THEN 2 ELSE 0]
    /\ UNCHANGED <<editingState, session, prior, clockVars, prefSheet, userPreferences, mainPc,
                   loopPc, sigPc, tickerRunning, nextTick, tickerC, started, sent, evaluated,
                   crashed>>

\* the rest of the handler: getSummary reads the total, and the reply
\* carries it
appendReply(u, failed) ==
    /\ u \in units /\ u.pc = "summary"
    /\ \E parts \in {Split(u.text, ",")} :
          reply' = [chat |-> u.chat, kind |-> "Added",
                    body |-> <<Itoa(normalizeNominal(TrimSpace(parts[1]))),
                               TrimSpace(parts[2]), TrimSpace(parts[3]),
                               Itoa(getSummary(sheet, failed))>>]
    /\ units' = units \ {u}
    /\ update' = [chat |-> u.chat, text |-> u.text, fail |-> IF failed THEN 3 ELSE 0]
    /\ UNCHANGED <<sheet, editingState, session, prior, clockVars, prefSheet, userPreferences,
                   mainPc, loopPc, sigPc, tickerRunning, nextTick, tickerC, started, sent,
                   evaluated, crashed>>

NextWebhook ==
    \/ \E c \in Chats, text \in WebhookTexts, failed \in BOOLEAN : appendGet(c, text, failed)
    \/ \E u \in units, failed \in BOOLEAN : appendAppend(u, failed)
    \/ \E u \in units, failed \in BOOLEAN : appendReply(u, failed)

SpecWebhook == InitWebhook /\ [][NextWebhook]_vars

\* C33: when two three-field messages are handled at the same time, the
\* two appended rows get distinct position numbers: no two entries of the
\* ledger carry the same position.
C33_DistinctPositions ==
    \A i \in EntryRows(sheet), j \in EntryRows(sheet) :
        i # j => sheet[i][1] # sheet[j][1]

RecurDay0 == DaysFromCivil(2025, 6, 1)

\* the firsts of a month the monthly runs start on: the months that follow
\* have 31, 28, 29 and 30 days
RecurMonths ==
    {DaysFromCivil(2025, 1, 1), DaysFromCivil(2025, 2, 1), DaysFromCivil(2024, 2, 1),
     DaysFromCivil(2025, 4, 1)}

\* the process starts at 19:59 or at 20:58 with a daily preference last
\* reminded the day before, or at 19:59 on the first of a month with a
\* monthly preference last reminded 40 days before
RecurStarts ==
    {[type |-> Daily, last |-> RecurDay0 - 1,
      now |-> RecurDay0 * DayUnits + 19 * HourUnits + m * MinuteUnits] : m \in {59, 118}}
    \cup {[type |-> Monthly, last |-> d - 40,
           now |-> d * DayUnits + 19 * HourUnits + 59 * MinuteUnits] : d \in RecurMonths}

InitRecur ==
    /\ sheet = <<Header, EntryRow(2, SchedStart, 0, 10000, <<"F", "o", "o", "d">>, <<"a">>)>>
    /\ editingState = <<>>
    /\ reply = NoReply
    /\ update = NoUpdate
    /\ session = [c \in Chats |-> Idle]
    /\ prior = Idle
    /\ tz = 0
    /\ \E s \in RecurStarts :
          /\ now = s.now
          /\ prefSheet = <<PrefHeader, PrefRow(101, s.type, s.last)>>
    /\ userPreferences = loadUserPreferences(prefSheet)
    /\ mainPc = "start"
    /\ loopPc = "notStarted"
    /\ sigPc = "notStarted"
    /\ tickerRunning = FALSE
    /\ nextTick = 0
    /\ tickerC = <<>>
    /\ units = {}
    /\ started = [c \in Chats |-> 0]
    /\ sent = [c \in Chats |-> 0]
    /\ evaluated = 0
    /\ crashed = FALSE

\* the instant of local 21:00 of the day of t
WindowEnd(t, zone) == LocalDay(t, zone) * DayUnits - zone * HourUnits + 21 * HourUnits

\* time passes while the ticker runs, within the day and up to a minute
\* after the hour-20 window: not past a tick the ticker has still to give
\* or the loop to take, and not up to the next tick while a dispatch is in
\* flight
Pass ==
    /\ ~crashed
    /\ tickerRunning /\ nextTick > now
    /\ tickerC = <<>>
    /\ units # {} => now + 1 < nextTick
    /\ now < WindowEnd(now, tz) + MinuteUnits
    /\ now' = now + 1
    /\ UNCHANGED <<ledgerVars, tz, schedVars>>

\* the day of the next occasion of a reminder type after the day day: the
\* next day, or the same day of the next month
NextOccasion(type, day) ==
    IF type = Monthly THEN day + DaysInMonth(CivilFromDays(day)[1], CivilFromDays(day)[2])
    ELSE day + 1

\* after the hour-20 window of a starting day, the time up to 62 minutes
\* before the same time of day of the next occasion passes: the ticks in
\* between are outside hour 20 or, for the monthly reminder, not on a 1st
Overnight ==
    /\ ~crashed
    /\ units = {} /\ tickerC = <<>>
    /\ tickerRunning /\ nextTick > now
    /\ Hour(now, tz) = 21
    /\ LocalDay(now, tz) \in {RecurDay0} \cup RecurMonths
    /\ \E c \in DOMAIN userPreferences :
          \E jump \in {(NextOccasion(userPreferences[c].ReminderType, LocalDay(now, tz))
                           - LocalDay(now, tz)) * DayUnits - 62 * MinuteUnits} :
             /\ now' = now + jump
             /\ nextTick' = nextTick + jump
    /\ UNCHANGED <<ledgerVars, tz, prefSheet, userPreferences, mainPc, loopPc, sigPc,
                   tickerRunning, tickerC, units, started, sent, evaluated, crashed>>

NextRecur ==
    \/ StartScheduler \/ Return
    \/ TickerFire \/ LoopTick
    \/ \E u \in units : DispatchSummary(u, FALSE)
    \/ \E u \in units : DispatchSend(u, TRUE)
    \/ \E u \in units : DispatchSave(u, FALSE)
    \/ Pass \/ Overnight

SpecRecur == InitRecur /\ [][NextRecur]_vars

\* the hour-20 window of the day is over and the scheduler has been running
\* all the time: the ticker was never stopped, every tick of the window has
\* been evaluated and no dispatch is in flight
WindowOver ==
    /\ ~crashed /\ tickerRunning /\ loopPc = "select"
    /\ units = {} /\ tickerC = <<>>
    /\ Hour(now, tz) = 21 /\ nextTick > now

\* the chat's latest reminder was recorded in the hour-20 window of the day
RemindedOn(c, day) ==
    /\ sent[c] >= 1
    /\ LocalDay(userPreferences[c].LastReminder, tz) = day
    /\ Hour(userPreferences[c].LastReminder, tz) = 20

\* C35: with the scheduler running continuously and every dispatch
\* succeeding, a daily chat that got a reminder on day D gets one on day
\* D+1: when the hour-20 window of a day is over, the latest reminder of a
\* daily chat is not the one of the day before.
C35_DailyNextDay ==
    \A c \in DOMAIN userPreferences :
        (WindowOver /\ userPreferences[c].ReminderType = Daily)
        => ~RemindedOn(c, LocalDay(now, tz) - 1)

\* the first day of the month before the month of the day day
FirstOfPreviousMonth(day) ==
    LET c == CivilFromDays(day)
    IN  IF c[2] = 1 THEN DaysFromCivil(c[1] - 1, 12, 1) ELSE DaysFromCivil(c[1], c[2] - 1, 1)

\* C36: with the scheduler running continuously and every dispatch
\* succeeding, a monthly chat that got a reminder on the 1st of a month gets
\* one on the 1st of the following month, whatever the length of the month:
\* when the hour-20 window of a 1st is over, the latest reminder of a
\* monthly chat is not the one of the 1st of the month before.
C36_MonthlyNextMonth ==
    \A c \in DOMAIN userPreferences :
        (WindowOver /\ userPreferences[c].ReminderType = Monthly /\ Day(now, tz) = 1)
        => ~RemindedOn(c, FirstOfPreviousMonth(LocalDay(now, tz)))

\* C37: every entry appended through the router is seen by the monthly
\* summary as well as by the total: on a ledger whose entries were all
\* appended in the current month, whether the sheet began with no row or
\* with the header row, the total of the monthly summary is the total
\* getSummary reports (no summary total when that total is 0).
C37_MonthlyTotalIsTotal ==
    [][(/\ update'.text = TxtMonthly
        /\ update'.fail = 0
        /\ \A i \in EntryRows(sheet) : sheet[i][2] = FormatDate(now, tz))
       => \/ /\ reply'.kind = "Monthly"
             /\ reply'.body[1] = Itoa(getSummary(sheet, FALSE))
          \/ /\ reply'.kind \in {"MonthlyEmpty", "NoData"}
             /\ getSummary(sheet, FALSE) = 0]_vars

=============================================================================
